---- MODULE Spec2Model ----
(***************************************************************************)
(* Model of the transfer-queue task executor base of the history service:  *)
(* the deletion coordinator (deleteExecution, isCloseExecutionTaskPending) *)
(* and the task dispatcher (pushActivity, pushWorkflowTask).               *)
(*                                                                         *)
(* Source: src/service/worker/workerdeployment/activities.go, lines        *)
(* 241-542 (package history).                                              *)
(***************************************************************************)
EXTENDS Integers, Sequences, FiniteSets, TLC

(***************************************************************************)
(* Bounds of the model.                                                    *)
(***************************************************************************)
\* number of task-processing goroutines that may call deleteExecution on the
\* same workflow concurrently
NumCallers == 2
\* task ids of the transfer queue are 1..MaxTaskID; ack levels 1..MaxTaskID+1
MaxTaskID == 2
\* number of add calls the worker-queue service receives in a behaviour
MaxDispatch == 2
\* largest number of task queues in the input of a fan-out activity
MaxTaskQueues == 2

(***************************************************************************)
(* Program constants.                                                      *)
(***************************************************************************)
\* common.EmptyVersion: "don't check task version"
EmptyVersion == 0
\* number of stages of the deletion primitive (DeleteWorkflowExecutionStage)
NumStages == 2

Callers == 1..NumCallers
TaskIDs == 1..MaxTaskID

\* error values
Nil == "nil"
ErrDependencyTaskNotCompleted == "ErrDependencyTaskNotCompleted"
ErrTaskVersionMismatch == "ErrTaskVersionMismatch"
ErrLockAcquire == "ErrLockAcquire"
ErrLoadMutableState == "ErrLoadMutableState"
ErrNotFound == "ErrNotFound"
ErrCloseVersion == "ErrCloseVersion"
ErrDeleteFailed == "ErrDeleteFailed"

\* versions a task or a mutable state can carry (besides EmptyVersion)
Versions == {1, 2}
\* a delete task: a task type that implements tasks.HasVersion carries a
\* version (possibly EmptyVersion), another one carries none
DeleteTasks ==
    {[hasVersion |-> FALSE, version |-> EmptyVersion]}
    \cup {[hasVersion |-> TRUE, version |-> v] : v \in Versions \cup {EmptyVersion}}

VARIABLES
    ms,            \* the workflow's mutable state: CloseTransferTaskId, CloseVersion
    exists,        \* whether the workflow's durable state still exists
    queueState,    \* the shard's transfer queue state: found, ackLevel, acked exceptions
    closeTaskDone, \* whether the workflow's close-execution transfer task has completed
    lockHolders,   \* the callers holding the workflow lock
    call,          \* per caller: the deleteExecution call it is running
    shard,         \* the shard context of the dispatcher: ClusterID, ShardID
    assigned,      \* build ids recorded in mutable state: workflow, activity
    push,          \* the last pushActivity / pushWorkflowTask invocation
    dispatched,    \* every add call the worker-queue service has received
    act,           \* the running fan-out activity: input, position, errs received
    gor,           \* the goroutines the activity has started, one record each
    mu,            \* the goroutines holding the activity's sync.Mutex
    maxVersionByName, \* the activity's map from task-queue name to max version
    factory,       \* the persistence factory: its limiters, metrics handler, health signals
    vended,        \* the persistence object the factory vended last
    svc,           \* the frontend Service: configuration, position in Start / Stop, calls made
    srv,           \* the gRPC and HTTP API servers of the Service and the drain timer
    auth,          \* the claim mapper's last GetClaims call: AuthInfo, token, result
    es             \* the ESClient: its sync.Once, its cached answer, its callers

delVars == <<ms, exists, queueState, closeTaskDone, lockHolders, call>>
pushVars == <<shard, assigned, push, dispatched>>
fanVars == <<act, gor, mu, maxVersionByName>>
factoryVars == <<factory, vended>>
svcVars == <<svc, srv>>
authVars == <<auth>>
esVars == <<es>>
auxVars == <<factoryVars, svcVars, authVars, esVars>>
vars == <<ms, exists, queueState, closeTaskDone, lockHolders, call,
          shard, assigned, push, dispatched, act, gor, mu, maxVersionByName,
          factory, vended, svc, srv, auth, es>>

(***************************************************************************)
(* Queue Ack Tracker.                                                      *)
(***************************************************************************)
\* queues.IsTaskAcked: the task id lies in the acked region of the queue
\* state: strictly below the ack level, or in the acked-exceptions set
IsTaskAcked(taskID, qs) ==
    \/ taskID < qs.ackLevel
    \/ taskID \in qs.acked

\* shardContext.GetQueueState(tasks.CategoryTransfer): (queue state, ok)
GetQueueState == queueState

\* isCloseExecutionTaskPending with the negation of the ack check lost
isCloseExecutionTaskPending_NotNegated(m, qs) ==
    IF m.CloseTransferTaskId = 0
    THEN FALSE
    ELSE IF ~qs.found
         THEN TRUE
         ELSE IsTaskAcked(m.CloseTransferTaskId, qs)

\* isCloseExecutionTaskPending without the early return for task id 0
isCloseExecutionTaskPending_NoLegacyReturn(m, qs) ==
    IF ~qs.found
    THEN TRUE
    ELSE ~IsTaskAcked(m.CloseTransferTaskId, qs)

\* isCloseExecutionTaskPending comparing the task id with the ack level
\* itself, the individually acked tasks left out
isCloseExecutionTaskPending_AckLevelOnly(m, qs) ==
    IF m.CloseTransferTaskId = 0
    THEN FALSE
    ELSE IF ~qs.found
         THEN TRUE
         ELSE ~(m.CloseTransferTaskId < qs.ackLevel)

\* isCloseExecutionTaskPending taking a missing queue state for "nothing
\* pending"
isCloseExecutionTaskPending_MissingStateNotPending(m, qs) ==
    IF m.CloseTransferTaskId = 0
    THEN FALSE
    ELSE IF ~qs.found
         THEN FALSE
         ELSE ~IsTaskAcked(m.CloseTransferTaskId, qs)

\* isCloseExecutionTaskPending(ms, weCtx)
isCloseExecutionTaskPending(m, qs) ==
    IF m.CloseTransferTaskId = 0
    THEN FALSE
    ELSE IF ~qs.found
         THEN TRUE
         ELSE ~IsTaskAcked(m.CloseTransferTaskId, qs)

(***************************************************************************)
(* Version Consistency Checker.                                            *)
(***************************************************************************)
\* CheckTaskVersion(shard, logger, namespaceEntry, closeVersion, taskVersion, task)
CheckTaskVersion(closeVersion, taskVersion) ==
    IF closeVersion # taskVersion THEN ErrTaskVersionMismatch ELSE Nil

\* taskVersion of deleteExecution: EmptyVersion unless the task has a version
TaskVersion(task) ==
    IF task.hasVersion THEN task.version ELSE EmptyVersion

(***************************************************************************)
(* deleteExecution, one step per blocking call.                            *)
(***************************************************************************)
\* the queue state a call has not read
NoQueueState == [read |-> FALSE, found |-> FALSE, ackLevel |-> 1, acked |-> {}]

\* no lock requested yet
NoLockRequest == [archetype |-> "none", priority |-> "none"]

\* the arguments of cache.GetOrCreateChasmEntity that choose the kind of
\* execution and the priority of the lock request
LockRequest_HighWhenUnguarded(task, ensureNoPendingCloseTask) ==
    [archetype |-> "ArchetypeAny",
     priority |-> IF ensureNoPendingCloseTask THEN "PriorityLow" ELSE "PriorityHigh"]

LockRequest(task, ensureNoPendingCloseTask) ==
    [archetype |-> "ArchetypeAny", priority |-> "PriorityLow"]

\* a call that has not started: its task and the task's ProcessStage; the
\* locals and the external calls made (trace) are those of the running call
IdleCall(task, stage) ==
    [pc |-> "idle", task |-> task, stage |-> stage, ensure |-> FALSE,
     transferQueueState |-> NoQueueState, lockRequest |-> NoLockRequest,
     ret |-> Nil, trace |-> <<>>, releaseArg |-> "none"]

\* the step of the call record: next position, the error to return, and the
\* external calls made by the step
Step(c, pc, ret, ops) ==
    [call EXCEPT ![c].pc = pc, ![c].ret = ret,
                 ![c].trace = call[c].trace \o ops]

\* deleteExecution with the release called where it is deferred: the lock
\* is given back before the load
DeleteStart_ReleaseNotDeferred(c) ==
    /\ call[c].pc = "idle"
    /\ \E e \in BOOLEAN :
         \/ /\ lockHolders = {}
            /\ lockHolders' = lockHolders
            /\ call' = [call EXCEPT ![c].pc = "load", ![c].ensure = e,
                                    ![c].lockRequest = LockRequest(call[c].task, e),
                                    ![c].trace = <<"lock">>]
         \/ /\ lockHolders' = lockHolders
            /\ call' = [call EXCEPT ![c].pc = "done", ![c].ensure = e,
                                    ![c].lockRequest = LockRequest(call[c].task, e),
                                    ![c].ret = ErrLockAcquire]
    /\ UNCHANGED <<ms, exists, queueState, closeTaskDone, pushVars, fanVars, auxVars>>

\* deleteExecution with the release deferred before the error of the lock
\* acquisition is looked at
DeleteStart_DeferBeforeErrCheck(c) ==
    /\ call[c].pc = "idle"
    /\ \E e \in BOOLEAN :
         \/ /\ lockHolders = {}
            /\ lockHolders' = lockHolders \cup {c}
            /\ call' = [call EXCEPT ![c].pc = "load", ![c].ensure = e,
                                    ![c].lockRequest = LockRequest(call[c].task, e),
                                    ![c].trace = <<"lock">>]
         \/ /\ lockHolders' = lockHolders
            /\ call' = [call EXCEPT ![c].pc = "release", ![c].ensure = e,
                                    ![c].lockRequest = LockRequest(call[c].task, e),
                                    ![c].ret = ErrLockAcquire]
    /\ UNCHANGED <<ms, exists, queueState, closeTaskDone, pushVars, fanVars, auxVars>>

\* deleteExecution up to the deferred release: the lock is requested through
\* cache.GetOrCreateChasmEntity(.., chasm.ArchetypeAny, locks.PriorityLow)
DeleteStart(c) ==
    /\ call[c].pc = "idle"
    /\ \E e \in BOOLEAN :
         \/ /\ lockHolders = {}
            /\ lockHolders' = lockHolders \cup {c}
            /\ call' = [call EXCEPT ![c].pc = "load", ![c].ensure = e,
                                    ![c].lockRequest = LockRequest(call[c].task, e),
                                    ![c].trace = <<"lock">>]
         \/ /\ lockHolders' = lockHolders
            /\ call' = [call EXCEPT ![c].pc = "done", ![c].ensure = e,
                                    ![c].lockRequest = LockRequest(call[c].task, e),
                                    ![c].ret = ErrLockAcquire]
    /\ UNCHANGED <<ms, exists, queueState, closeTaskDone, pushVars, fanVars, auxVars>>

\* loadMutableStateForTransferTask
Load(c) ==
    /\ call[c].pc = "load"
    /\ \/ /\ exists
          /\ call' = Step(c, "guard", Nil, <<"load">>)
       \/ /\ exists
          /\ call' = Step(c, "release", ErrLoadMutableState, <<"load">>)
       \/ /\ ~exists
          /\ call' = Step(c, "release", ErrNotFound, <<"load">>)
    /\ UNCHANGED <<ms, exists, queueState, closeTaskDone, lockHolders, pushVars, fanVars, auxVars>>

\* the pending-close guard: the error it returns
\* the guard run whatever ensureNoPendingCloseTask says
GuardResult_EnsureIgnored(ensure, m, qs) ==
    IF isCloseExecutionTaskPending(m, qs)
    THEN ErrDependencyTaskNotCompleted
    ELSE Nil

GuardResult(ensure, m, qs) ==
    IF ensure /\ isCloseExecutionTaskPending(m, qs)
    THEN ErrDependencyTaskNotCompleted
    ELSE Nil

\* whether isCloseExecutionTaskPending gets as far as reading the queue state
ReadsQueueState(ensure, m) == ensure /\ m.CloseTransferTaskId # 0

Guard(c) ==
    /\ call[c].pc = "guard"
    /\ LET qs == GetQueueState
           err == GuardResult(call[c].ensure, ms, qs)
           ops == IF call[c].ensure THEN <<"guard">> ELSE <<>>
           seen == IF ReadsQueueState(call[c].ensure, ms)
                   THEN [read |-> TRUE, found |-> qs.found,
                         ackLevel |-> qs.ackLevel, acked |-> qs.acked]
                   ELSE NoQueueState
       IN call' = [Step(c, IF err # Nil THEN "release" ELSE "version", err, ops)
                     EXCEPT ![c].transferQueueState = seen]
    /\ UNCHANGED <<ms, exists, queueState, closeTaskDone, lockHolders, pushVars, fanVars, auxVars>>

\* the version check run for every task, EmptyVersion included
NeedsVersionCheck_Always(taskVersion) == taskVersion = taskVersion

\* whether deleteExecution checks the task's version
NeedsVersionCheck(taskVersion) == taskVersion # EmptyVersion

\* the version check with the result of CheckTaskVersion dropped
Version_MismatchIgnored(c) ==
    /\ call[c].pc = "version"
    /\ LET taskVersion == TaskVersion(call[c].task)
       IN IF NeedsVersionCheck(taskVersion)
          THEN \/ call' = Step(c, "release", ErrCloseVersion, <<"getCloseVersion">>)
               \/ call' = Step(c, "delete", Nil, <<"getCloseVersion", "checkVersion">>)
          ELSE call' = Step(c, "delete", Nil, <<>>)
    /\ UNCHANGED <<ms, exists, queueState, closeTaskDone, lockHolders, pushVars, fanVars, auxVars>>

\* the version check of deleteExecution
Version(c) ==
    /\ call[c].pc = "version"
    /\ LET taskVersion == TaskVersion(call[c].task)
       IN IF NeedsVersionCheck(taskVersion)
          THEN \/ call' = Step(c, "release", ErrCloseVersion, <<"getCloseVersion">>)
               \/ LET err == CheckTaskVersion(ms.CloseVersion, taskVersion)
                  IN call' = Step(c, IF err # Nil THEN "release" ELSE "delete", err,
                                  <<"getCloseVersion", "checkVersion">>)
          ELSE call' = Step(c, "delete", Nil, <<>>)
    /\ UNCHANGED <<ms, exists, queueState, closeTaskDone, lockHolders, pushVars, fanVars, auxVars>>

\* the stage handed to the deletion primitive: processDeleteExecutionTask
\* passes &task.ProcessStage, and deleteExecution passes it on untouched
StageArgument_FreshStage(processStage) == 0

StageArgument(processStage) == processStage

\* workflowDeleteManager.DeleteWorkflowExecution(.., weCtx, mutableState, stage)
Delete(c) ==
    /\ call[c].pc = "delete"
    /\ \E s \in StageArgument(call[c].stage)..NumStages :
         /\ call' = [Step(c, "release",
                          IF s = NumStages THEN Nil ELSE ErrDeleteFailed,
                          <<"delete">>) EXCEPT ![c].stage = s]
         /\ exists' = IF s = NumStages THEN FALSE ELSE exists
    /\ UNCHANGED <<ms, queueState, closeTaskDone, lockHolders, pushVars, fanVars, auxVars>>

\* the release deferred with the error of the lock acquisition (nil) instead
\* of the named result
Release_NilArgument(c) ==
    /\ call[c].pc = "release"
    /\ lockHolders' = lockHolders \ {c}
    /\ call' = [call EXCEPT ![c].pc = "done",
                            ![c].releaseArg = Nil,
                            ![c].trace = call[c].trace \o <<"release">>]
    /\ UNCHANGED <<ms, exists, queueState, closeTaskDone, pushVars, fanVars, auxVars>>

\* defer func() { release(retError) }()
Release(c) ==
    /\ call[c].pc = "release"
    /\ lockHolders' = lockHolders \ {c}
    /\ call' = [call EXCEPT ![c].pc = "done",
                            ![c].releaseArg = call[c].ret,
                            ![c].trace = call[c].trace \o <<"release">>]
    /\ UNCHANGED <<ms, exists, queueState, closeTaskDone, pushVars, fanVars, auxVars>>

\* the processing loop runs the same task again after an error
Retry(c) ==
    /\ call[c].pc = "done"
    /\ call[c].ret # Nil
    /\ call' = [call EXCEPT ![c] = IdleCall(call[c].task, call[c].stage)]
    /\ UNCHANGED <<ms, exists, queueState, closeTaskDone, lockHolders, pushVars, fanVars, auxVars>>

\* the processing loop takes the next delete task of the queue
NextTask(c) ==
    /\ call[c].pc = "done"
    /\ \E t \in DeleteTasks : call' = [call EXCEPT ![c] = IdleCall(t, 0)]
    /\ UNCHANGED <<ms, exists, queueState, closeTaskDone, lockHolders, pushVars, fanVars, auxVars>>

(***************************************************************************)
(* The shard's queue processing, the environment of the guard.             *)
(***************************************************************************)
\* the close-execution transfer task of the workflow completes
CloseTaskComplete ==
    /\ ~closeTaskDone
    /\ closeTaskDone' = TRUE
    /\ UNCHANGED <<ms, exists, queueState, lockHolders, call, pushVars, fanVars, auxVars>>

\* a task is marked acked only after it has completed
MayAck(taskID) == taskID = ms.CloseTransferTaskId => closeTaskDone

\* the shard publishes its transfer queue state
QueueStateCreate ==
    /\ ~queueState.found
    /\ queueState' = [queueState EXCEPT !.found = TRUE]
    /\ UNCHANGED <<ms, exists, closeTaskDone, lockHolders, call, pushVars, fanVars, auxVars>>

\* the ack level moves forward over the next task
AckLevelAdvance ==
    /\ queueState.found
    /\ queueState.ackLevel <= MaxTaskID
    /\ MayAck(queueState.ackLevel)
    /\ queueState' = [queueState EXCEPT
                        !.ackLevel = queueState.ackLevel + 1,
                        !.acked = {i \in queueState.acked : i > queueState.ackLevel}]
    /\ UNCHANGED <<ms, exists, closeTaskDone, lockHolders, call, pushVars, fanVars, auxVars>>

\* a task at or above the ack level completes out of order
AckOutOfOrder ==
    /\ queueState.found
    /\ \E i \in TaskIDs :
         /\ i >= queueState.ackLevel
         /\ i \notin queueState.acked
         /\ MayAck(i)
         /\ queueState' = [queueState EXCEPT !.acked = queueState.acked \cup {i}]
    /\ UNCHANGED <<ms, exists, closeTaskDone, lockHolders, call, pushVars, fanVars, auxVars>>

(***************************************************************************)
(* Task Dispatcher: pushActivity and pushWorkflowTask.                     *)
(***************************************************************************)
NotFound == "NotFound"
Unavailable == "Unavailable"
ErrUpdateFailed == "ErrUpdateFailed"

BuildIds == {"b1", "b2"}
\* what the worker-queue service answers to an add call: an error and no
\* response, or a response with the build id it assigned
MatchingResponses ==
    {[err |-> e, AssignedBuildId |-> ""] : e \in {NotFound, Unavailable}}
    \cup {[err |-> Nil, AssignedBuildId |-> b] : b \in BuildIds}

\* a *TaskVersionDirective: a nil pointer, a directive pinned to a build id,
\* or a directive asking for the assignment rules
Directives == {"nil", "assignedBuildId", "useAssignmentRules"}
\* time.Duration values, in nanoseconds
Timeouts == {-1, 0, 1500000000}
Priorities == {"priority3"}
Policies == {"TransactionPolicyActive", "TransactionPolicyPassive"}
TaskQueues == {[Name |-> "sticky-tq", Kind |-> "STICKY"]}
NoTaskQueue == [Name |-> "", Kind |-> "UNSPECIFIED"]

ActivityTasks ==
    {[NamespaceID |-> "ns1", WorkflowID |-> "wf1", RunID |-> "run1", TaskID |-> 41,
      TaskQueue |-> "tq", ScheduledEventID |-> 5, Stamp |-> 0],
     [NamespaceID |-> "ns1", WorkflowID |-> "wf1", RunID |-> "run1", TaskID |-> 42,
      TaskQueue |-> "tq2", ScheduledEventID |-> 7, Stamp |-> 1]}
WorkflowTasks ==
    {[NamespaceID |-> "ns1", WorkflowID |-> "wf1", RunID |-> "run1", TaskID |-> 41,
      ScheduledEventID |-> 2],
     [NamespaceID |-> "ns1", WorkflowID |-> "wf1", RunID |-> "run1", TaskID |-> 42,
      ScheduledEventID |-> 9]}

\* the results a mutable-state update can have; only an update after a
\* successful add call under a directive asking for the assignment rules can fail
UpdateResults(directive, resp) ==
    IF resp.err = Nil /\ directive = "useAssignmentRules"
    THEN {Nil, ErrUpdateFailed}
    ELSE {Nil}

\* a nil *durationpb.Duration
NilDuration == [set |-> FALSE, Seconds |-> 0, Nanos |-> 0]

\* durationpb.New(d): seconds and nanoseconds, both truncated towards zero
DurationpbNew(d) ==
    IF d >= 0
    THEN [set |-> TRUE, Seconds |-> d \div 1000000000, Nanos |-> d % 1000000000]
    ELSE [set |-> TRUE, Seconds |-> 0 - ((0 - d) \div 1000000000),
          Nanos |-> 0 - ((0 - d) % 1000000000)]

\* vclock.NewVectorClock(clusterID, shardID, taskID)
NewVectorClock(clusterID, shardID, taskID) ==
    [ClusterId |-> clusterID, ShardId |-> shardID, Clock |-> taskID]

\* the test of the directive being there instead of the test of its
\* assignment rules
UsesAssignmentRules_AnyDirective(directive) == directive # "nil"

\* directive.GetUseAssignmentRules() != nil (the getter accepts a nil directive)
UsesAssignmentRules(directive) == directive = "useAssignmentRules"

\* _, isNotFound := err.(*serviceerror.NotFound)
IsNotFound(err) == err = NotFound

\* the request pushActivity sends
AddActivityTaskRequest_ClockFromEventId(sh, task, timeout, directive, priority) ==
    [op |-> "AddActivityTask",
     NamespaceId |-> task.NamespaceID,
     Execution |-> [WorkflowId |-> task.WorkflowID, RunId |-> task.RunID],
     TaskQueue |-> [Name |-> task.TaskQueue, Kind |-> "NORMAL"],
     ScheduledEventId |-> task.ScheduledEventID,
     ScheduleToStartTimeout |-> DurationpbNew(timeout),
     Clock |-> NewVectorClock(sh.ClusterID, sh.ShardID, task.ScheduledEventID),
     VersionDirective |-> directive,
     Stamp |-> task.Stamp,
     Priority |-> priority]

AddActivityTaskRequest(sh, task, timeout, directive, priority) ==
    [op |-> "AddActivityTask",
     NamespaceId |-> task.NamespaceID,
     Execution |-> [WorkflowId |-> task.WorkflowID, RunId |-> task.RunID],
     TaskQueue |-> [Name |-> task.TaskQueue, Kind |-> "NORMAL"],
     ScheduledEventId |-> task.ScheduledEventID,
     ScheduleToStartTimeout |-> DurationpbNew(timeout),
     Clock |-> NewVectorClock(sh.ClusterID, sh.ShardID, task.TaskID),
     VersionDirective |-> directive,
     Stamp |-> task.Stamp,
     Priority |-> priority]

\* sst of pushWorkflowTask set for a zero timeout too
WorkflowTaskSst_ZeroSent(timeout) ==
    IF timeout >= 0 THEN DurationpbNew(timeout) ELSE NilDuration

\* sst of pushWorkflowTask
WorkflowTaskSst(timeout) ==
    IF timeout > 0 THEN DurationpbNew(timeout) ELSE NilDuration

\* the request pushWorkflowTask sends
AddWorkflowTaskRequest(sh, task, taskqueue, timeout, directive, priority) ==
    [op |-> "AddWorkflowTask",
     NamespaceId |-> task.NamespaceID,
     Execution |-> [WorkflowId |-> task.WorkflowID, RunId |-> task.RunID],
     TaskQueue |-> taskqueue,
     ScheduledEventId |-> task.ScheduledEventID,
     ScheduleToStartTimeout |-> WorkflowTaskSst(timeout),
     Clock |-> NewVectorClock(sh.ClusterID, sh.ShardID, task.TaskID),
     VersionDirective |-> directive,
     Priority |-> priority]

\* the update called with the active transaction policy whatever the caller's
UpdateCall_DefaultPolicy(op, task, buildId, policy, err) ==
    [op |-> op, TaskID |-> task.TaskID, buildId |-> buildId,
     transactionPolicy |-> "TransactionPolicyActive", err |-> err]

\* the call of updateIndependentActivityBuildId / initializeWorkflowAssignedBuildId
UpdateCall(op, task, buildId, policy, err) ==
    [op |-> op, TaskID |-> task.TaskID, buildId |-> buildId,
     transactionPolicy |-> policy, err |-> err]

\* the dispatcher swallowing NotFound: logged, then treated as a success
AfterAdd_NotFoundSwallowed(updateOp, task, directive, policy, resp, updErr) ==
    LET logs == IF IsNotFound(resp.err) THEN 1 ELSE 0
    IN IF resp.err # Nil /\ ~IsNotFound(resp.err)
       THEN [updates |-> <<>>, ret |-> resp.err, errorLogs |-> logs]
       ELSE IF ~UsesAssignmentRules(directive)
            THEN [updates |-> <<>>, ret |-> Nil, errorLogs |-> logs]
            ELSE [updates |-> <<UpdateCall(updateOp, task, resp.AssignedBuildId,
                                           policy, updErr)>>,
                  ret |-> updErr, errorLogs |-> logs]

\* the dispatcher logging the error of the update instead of returning it
AfterAdd_UpdateErrorDropped(updateOp, task, directive, policy, resp, updErr) ==
    LET logs == (IF IsNotFound(resp.err) THEN 1 ELSE 0)
    IN IF resp.err # Nil
       THEN [updates |-> <<>>, ret |-> resp.err, errorLogs |-> logs]
       ELSE IF ~UsesAssignmentRules(directive)
            THEN [updates |-> <<>>, ret |-> Nil, errorLogs |-> logs]
            ELSE [updates |-> <<UpdateCall(updateOp, task, resp.AssignedBuildId,
                                           policy, updErr)>>,
                  ret |-> Nil,
                  errorLogs |-> logs + (IF updErr # Nil THEN 1 ELSE 0)]

\* the dispatcher testing the directive before the error of the add call
AfterAdd_DirectiveFirst(updateOp, task, directive, policy, resp, updErr) ==
    LET logs == IF IsNotFound(resp.err) THEN 1 ELSE 0
    IN IF UsesAssignmentRules(directive)
       THEN [updates |-> <<UpdateCall(updateOp, task, resp.AssignedBuildId,
                                      policy, updErr)>>,
             ret |-> IF resp.err # Nil THEN resp.err ELSE updErr, errorLogs |-> logs]
       ELSE [updates |-> <<>>, ret |-> resp.err, errorLogs |-> logs]

\* what the dispatcher does once the add call has answered resp: the error
\* log lines it writes, the mutable-state updates it issues and the error it
\* returns; updErr is the result of the update, should it be attempted
AfterAdd(updateOp, task, directive, policy, resp, updErr) ==
    LET logs == IF IsNotFound(resp.err) THEN 1 ELSE 0
    IN IF resp.err # Nil
       THEN [updates |-> <<>>, ret |-> resp.err, errorLogs |-> logs]
       ELSE IF ~UsesAssignmentRules(directive)
            THEN [updates |-> <<>>, ret |-> Nil, errorLogs |-> logs]
            ELSE [updates |-> <<UpdateCall(updateOp, task, resp.AssignedBuildId,
                                           policy, updErr)>>,
                  ret |-> updErr, errorLogs |-> logs]

\* the mutable state after the updates of one invocation: a successful
\* updateIndependentActivityBuildId records the activity's build id, a
\* successful initializeWorkflowAssignedBuildId the workflow's
ApplyUpdates(a, updates) ==
    IF updates = <<>> \/ updates[1].err # Nil
    THEN a
    ELSE IF updates[1].op = "updateIndependentActivityBuildId"
         THEN [a EXCEPT !.activity = updates[1].buildId]
         ELSE [a EXCEPT !.workflow = updates[1].buildId]

\* the add calls one invocation makes to the matching service: the request is
\* sent once, and the error of a failed call is returned, never retried
AddCalls_RetryOnError(req, resp) ==
    IF resp.err # Nil THEN <<req, req>> ELSE <<req>>

AddCalls(req, resp) == <<req>>

\* the record of one invocation; the update's result is part of the
\* invocation only when the update is attempted
Invocation(kind, task, taskqueue, timeout, directive, priority, policy, resp, req, out) ==
    LET adds == AddCalls(req, resp)
    IN [kind |-> kind, task |-> task, taskqueue |-> taskqueue, timeout |-> timeout,
        directive |-> directive, priority |-> priority, policy |-> policy,
        resp |-> resp, adds |-> adds, updates |-> out.updates,
        order |-> [i \in 1..Len(adds) |-> adds[i].op]
                  \o [i \in 1..Len(out.updates) |-> out.updates[i].op],
        ret |-> out.ret, errorLogs |-> out.errorLogs]

\* what the matching service sees of one invocation: one entry per add call
Dispatches(task, adds) ==
    [i \in 1..Len(adds) |->
        [op |-> adds[i].op, TaskID |-> task.TaskID,
         ScheduledEventId |-> adds[i].ScheduledEventId, Clock |-> adds[i].Clock]]

NoInvocation ==
    [kind |-> "none", ret |-> Nil, adds |-> <<>>, updates |-> <<>>, order |-> <<>>,
     errorLogs |-> 0]

pushActivity ==
    /\ Len(dispatched) < MaxDispatch
    /\ \E task \in ActivityTasks, timeout \in Timeouts, directive \in Directives,
          priority \in Priorities, policy \in Policies, resp \in MatchingResponses :
       \E updErr \in UpdateResults(directive, resp) :
         LET req == AddActivityTaskRequest(shard, task, timeout, directive, priority)
             out == AfterAdd("updateIndependentActivityBuildId", task, directive,
                             policy, resp, updErr)
         IN /\ push' = Invocation("activity", task, NoTaskQueue, timeout, directive,
                                  priority, policy, resp, req, out)
            /\ assigned' = ApplyUpdates(assigned, out.updates)
            /\ dispatched' = dispatched \o Dispatches(task, AddCalls(req, resp))
    /\ UNCHANGED <<delVars, shard, fanVars, auxVars>>

pushWorkflowTask ==
    /\ Len(dispatched) < MaxDispatch
    /\ \E task \in WorkflowTasks, taskqueue \in TaskQueues, timeout \in Timeouts,
          directive \in Directives, priority \in Priorities, policy \in Policies,
          resp \in MatchingResponses :
       \E updErr \in UpdateResults(directive, resp) :
         LET req == AddWorkflowTaskRequest(shard, task, taskqueue, timeout, directive,
                                           priority)
             out == AfterAdd("initializeWorkflowAssignedBuildId", task, directive,
                             policy, resp, updErr)
         IN /\ push' = Invocation("workflow", task, taskqueue, timeout, directive,
                                  priority, policy, resp, req, out)
            /\ assigned' = ApplyUpdates(assigned, out.updates)
            /\ dispatched' = dispatched \o Dispatches(task, AddCalls(req, resp))
    /\ UNCHANGED <<delVars, shard, fanVars, auxVars>>

(***************************************************************************)
(* Persistence factory: NewFactory and the objects it vends.  An object is *)
(* the sequence of its layers, innermost first: the manager built on the   *)
(* store and the clients wrapped around it.                                *)
(***************************************************************************)
NilPtr == "nil"

\* no factory has been built, nothing has been vended
NoFactory == [built |-> FALSE]

NoObject == [kind |-> "none", err |-> Nil, layers |-> <<>>]

\* no Service has been constructed
NoService == [pc |-> "none"]

NoServer == [grpc |-> "none"]

\* GetClaims has not been called
NoAuth == [pc |-> "none"]

SvcIdle == svc = NoService /\ srv = NoServer

AuthIdle == auth = NoAuth

\* no ESClient has been constructed
NoClient == [once |-> "none"]

EsIdle == es = NoClient

\* the components the other specifications leave alone
AuxIdle ==
    /\ factory = NoFactory
    /\ vended = NoObject
    /\ SvcIdle
    /\ AuthIdle
    /\ EsIdle

(***************************************************************************)
(* Version-sync fan-out activities: SyncUnversionedRamp,                   *)
(* CheckUnversionedRampUserDataPropagation and                             *)
(* SyncDeploymentVersionUserDataFromWorkerDeployment.  Each starts one     *)
(* goroutine per task queue of its input; a goroutine calls the matching   *)
(* service, records the version it got under the mutex and sends its error *)
(* on the unbuffered channel errs, which the activity reads once per entry.*)
(***************************************************************************)
SyncUnversionedRamp == "SyncUnversionedRamp"
CheckUnversionedRampUserDataPropagation == "CheckUnversionedRampUserDataPropagation"
SyncDeploymentVersionUserDataFromWorkerDeployment ==
    "SyncDeploymentVersionUserDataFromWorkerDeployment"

TaskQueueNames == {"tq" \o ToString(i) : i \in 1..MaxTaskQueues}

\* errors of the matching client and of the deployment client
DeadlineExceeded == "DeadlineExceeded"
ClientErrors == {Unavailable, DeadlineExceeded}

SeqsUpTo(S, n) == UNION {[1..k -> S] : k \in 0..n}

\* SyncDeploymentVersionUserDataRequest_SyncUserData: Name, Types, Data; the
\* entries of the check activity are the pairs (name, version) of its map
SyncUserData ==
    {[Name |-> n, Types |-> <<"WORKFLOW">>, Data |-> "data of " \o n, Version |-> 0] :
        n \in TaskQueueNames}
    \cup {[Name |-> "tq1", Types |-> <<"ACTIVITY">>, Data |-> "activity data of tq1",
            Version |-> 0]}

TaskQueueInfos ==
    {[Name |-> n, Type |-> "WORKFLOW"] : n \in TaskQueueNames}
    \cup {[Name |-> "tq1", Type |-> "ACTIVITY"]}

\* the inputs of the three activities
SyncInputs ==
    [Sync : SeqsUpTo(SyncUserData, MaxTaskQueues), ForgetVersion : BOOLEAN,
     Version : {"v1"}]

RampInputs ==
    [CurrentVersion : {"v0"},
     UpdateArgs : {[RoutingUpdateTime |-> 7, RampingSinceTime |-> 7,
                    RampPercentage |-> 30]}]

\* input.TaskQueueMaxVersions in an order in which the map may be ranged over
CheckInputs ==
    [TaskQueueMaxVersions :
        {q \in SeqsUpTo(TaskQueueNames \X Versions, MaxTaskQueues) :
            \A i, j \in 1..Len(q) : i # j => q[i][1] # q[j][1]}]

\* currVersionInfo.GetTaskQueueInfos(), or the error of DescribeVersion
DescribeResults ==
    [err : {Nil}, TaskQueueInfos : SeqsUpTo(TaskQueueInfos, MaxTaskQueues)]
    \cup [err : ClientErrors, TaskQueueInfos : {<<>>}]

\* the data SyncUnversionedRamp sends: no version, the ramp of the input
RampData(input) ==
    [Version |-> "nil",
     RoutingUpdateTime |-> input.UpdateArgs.RoutingUpdateTime,
     RampingSinceTime |-> input.UpdateArgs.RampingSinceTime,
     RampPercentage |-> input.UpdateArgs.RampPercentage]

\* taskQueueSyncs of SyncUnversionedRamp
RampSyncs(input, infos) ==
    [i \in 1..Len(infos) |->
        [Name |-> infos[i].Name, Types |-> <<infos[i].Type>>,
         Data |-> RampData(input), Version |-> 0]]

\* the pairs the check activity ranges over
CheckEntries(input) ==
    [i \in 1..Len(input.TaskQueueMaxVersions) |->
        [Name |-> input.TaskQueueMaxVersions[i][1], Types |-> <<>>,
         Data |-> "none", Version |-> input.TaskQueueMaxVersions[i][2]]]

\* a request that carries the version data whatever input.ForgetVersion is
MatchingRequest_ForgetVersionIgnored(kind, input, e) ==
    IF kind = CheckUnversionedRampUserDataPropagation
    THEN [op |-> "CheckTaskQueueUserDataPropagation", TaskQueue |-> e.Name,
          TaskQueueTypes |-> <<>>, Operation |-> "none", Value |-> "none",
          Version |-> e.Version]
    ELSE [op |-> "SyncDeploymentUserData", TaskQueue |-> e.Name,
          TaskQueueTypes |-> e.Types, Operation |-> "UpdateVersionData",
          Value |-> e.Data, Version |-> 0]

\* the request a goroutine sends for its entry
MatchingRequest(kind, input, e) ==
    IF kind = CheckUnversionedRampUserDataPropagation
    THEN [op |-> "CheckTaskQueueUserDataPropagation", TaskQueue |-> e.Name,
          TaskQueueTypes |-> <<>>, Operation |-> "none", Value |-> "none",
          Version |-> e.Version]
    ELSE IF kind = SyncDeploymentVersionUserDataFromWorkerDeployment
            /\ input.ForgetVersion
         THEN [op |-> "SyncDeploymentUserData", TaskQueue |-> e.Name,
               TaskQueueTypes |-> e.Types, Operation |-> "ForgetVersion",
               Value |-> input.Version, Version |-> 0]
         ELSE [op |-> "SyncDeploymentUserData", TaskQueue |-> e.Name,
               TaskQueueTypes |-> e.Types, Operation |-> "UpdateVersionData",
               Value |-> e.Data, Version |-> 0]

\* the outcomes of a call to the matching service
\* res.Version is an int64: a version below the zero value of a map entry,
\* and one above it
ResponseVersions == {-1, 2}

MatchingResults ==
    [err : {Nil}, Version : ResponseVersions] \cup [err : ClientErrors, Version : {0}]

\* the reduction keeping the error received last
cmpOr_LastWins(a, b) == IF b # Nil THEN b ELSE a

\* cmp.Or(a, b) on errors: the first that is not nil
cmpOr(a, b) == IF a # Nil THEN a ELSE b

max(a, b) == IF a >= b THEN a ELSE b

\* a Go map from task-queue name to version, as its set of pairs; reading a
\* missing key gives 0
MapGet(m, name) ==
    IF \E p \in m : p[1] = name
    THEN (CHOOSE p \in m : p[1] = name)[2]
    ELSE 0

MapPut(m, name, v) == {p \in m : p[1] # name} \cup {<<name, v>>}

NoRequest == [op |-> "none"]

\* the goroutine started for an entry
NewGoroutine(e) ==
    [entry |-> e, pc |-> "start", req |-> NoRequest, err |-> Nil, version |-> 0,
     old |-> 0, errorLogs |-> 0]

\* the goroutines the loop over the entries starts for one entry
Started_TwoPerEntry(e) == <<NewGoroutine(e), NewGoroutine(e)>>

Started(e) == <<NewGoroutine(e)>>

NoResult == [resp |-> "none", err |-> "none"]

NoActivity ==
    [kind |-> "none", input |-> "none", entries |-> <<>>, pc |-> "done",
     fanOut |-> FALSE, spawned |-> 0, received |-> 0, err |-> Nil, ret |-> NoResult]

\* an activity at its first statement
NewActivity(kind, input) ==
    LET entries == IF kind = SyncDeploymentVersionUserDataFromWorkerDeployment
                   THEN input.Sync
                   ELSE IF kind = CheckUnversionedRampUserDataPropagation
                        THEN CheckEntries(input)
                        ELSE <<>>
    IN [kind |-> kind, input |-> input, entries |-> entries,
        pc |-> IF kind = SyncUnversionedRamp THEN "describe"
               ELSE IF entries = <<>> THEN "collect" ELSE "spawn",
        fanOut |-> kind # SyncUnversionedRamp, spawned |-> 0, received |-> 0, err |-> Nil, ret |-> NoResult]

\* no fan-out activity is running
FanIdle ==
    /\ act = NoActivity
    /\ gor = <<>>
    /\ mu = {}
    /\ maxVersionByName = {}

\* whether the activity keeps the map of max versions
KeepsMaxVersions(kind) == kind # CheckUnversionedRampUserDataPropagation

\* SyncUnversionedRamp: DescribeVersion and the construction of taskQueueSyncs
DescribeVersion ==
    /\ act.pc = "describe"
    /\ \E r \in DescribeResults :
         act' = IF r.err # Nil
                THEN [act EXCEPT !.pc = "done", !.err = r.err,
                                 !.ret = [resp |-> "nil", err |-> r.err]]
                ELSE [act EXCEPT
                        !.entries = RampSyncs(act.input, r.TaskQueueInfos),
                        !.fanOut = TRUE,
                        !.pc = IF r.TaskQueueInfos = <<>> THEN "collect" ELSE "spawn"]
    /\ UNCHANGED <<auxVars, delVars, pushVars, gor, mu, maxVersionByName>>

\* one turn of the loop that starts the goroutines: go func(..){..}(e)
Spawn ==
    /\ act.pc = "spawn"
    /\ gor' = gor \o Started(act.entries[act.spawned + 1])
    /\ act' = [act EXCEPT
                 !.spawned = act.spawned + 1,
                 !.pc = IF act.spawned + 1 = Len(act.entries)
                        THEN "collect" ELSE "spawn"]
    /\ UNCHANGED <<auxVars, delVars, pushVars, mu, maxVersionByName>>

\* the goroutine sends its request to the matching service
GoCall(i) ==
    /\ gor[i].pc = "start"
    /\ gor' = [gor EXCEPT ![i].pc = "call",
                          ![i].req = MatchingRequest(act.kind, act.input, gor[i].entry)]
    /\ UNCHANGED <<auxVars, delVars, pushVars, act, mu, maxVersionByName>>

\* the call returns: an error is logged, a version goes to the map
GoReturn(i) ==
    /\ gor[i].pc = "call"
    /\ \E r \in MatchingResults :
         gor' = [gor EXCEPT
                   ![i].err = r.err,
                   ![i].version = r.Version,
                   ![i].errorLogs = IF r.err # Nil THEN 1 ELSE 0,
                   ![i].pc = IF r.err = Nil /\ KeepsMaxVersions(act.kind)
                             THEN "lock" ELSE "send"]
    /\ UNCHANGED <<auxVars, delVars, pushVars, act, mu, maxVersionByName>>

\* a lock that never makes its caller wait
MutexFree_NoMutex(holders) == TRUE

\* lock.Lock() returns when no goroutine holds the mutex
MutexFree(holders) == holders = {}

\* lock.Lock() and the read of the map entry
GoLock(i) ==
    /\ gor[i].pc = "lock"
    /\ MutexFree(mu)
    /\ mu' = {i}
    /\ gor' = [gor EXCEPT ![i].pc = "store",
                          ![i].old = MapGet(maxVersionByName, gor[i].entry.Name)]
    /\ UNCHANGED <<auxVars, delVars, pushVars, act, maxVersionByName>>

\* the write of the map entry and lock.Unlock()
GoStore(i) ==
    /\ gor[i].pc = "store"
    /\ maxVersionByName' = MapPut(maxVersionByName, gor[i].entry.Name,
                                  max(gor[i].old, gor[i].version))
    /\ mu' = mu \ {i}
    /\ gor' = [gor EXCEPT ![i].pc = "send"]
    /\ UNCHANGED <<auxVars, delVars, pushVars, act>>

\* errs <- err in the goroutine meets <-errs in the activity
Receive(i) ==
    /\ act.pc = "collect"
    /\ act.received < Len(act.entries)
    /\ gor[i].pc = "send"
    /\ act' = [act EXCEPT !.err = cmpOr(act.err, gor[i].err),
                          !.received = act.received + 1]
    /\ gor' = [gor EXCEPT ![i].pc = "done"]
    /\ UNCHANGED <<auxVars, delVars, pushVars, mu, maxVersionByName>>

\* the result of the activity after the last receive
ActivityResult(kind, err, m) ==
    IF kind = CheckUnversionedRampUserDataPropagation
    THEN [resp |-> "none", err |-> err]
    ELSE IF err # Nil
         THEN [resp |-> "nil", err |-> err]
         ELSE [resp |-> [TaskQueueMaxVersions |-> m], err |-> Nil]

\* the receive loop `for range <entries>` has run once per entry
AllReceived_StopAtFirstError(a) == a.received = Len(a.entries) \/ a.err # Nil

AllReceived(a) == a.received = Len(a.entries)

ActivityReturn ==
    /\ act.pc = "collect"
    /\ AllReceived(act)
    /\ act' = [act EXCEPT !.pc = "done",
                          !.ret = ActivityResult(act.kind, act.err, maxVersionByName)]
    /\ UNCHANGED <<auxVars, delVars, pushVars, gor, mu, maxVersionByName>>

InitFan ==
    /\ ms = [CloseTransferTaskId |-> 0, CloseVersion |-> 1]
    /\ exists = TRUE
    /\ queueState = [found |-> FALSE, ackLevel |-> 1, acked |-> {}]
    /\ closeTaskDone = FALSE
    /\ lockHolders = {}
    /\ call = [c \in Callers |-> IdleCall([hasVersion |-> FALSE, version |-> EmptyVersion], 0)]
    /\ shard = [ClusterID |-> 1, ShardID |-> 3]
    /\ assigned = [workflow |-> "", activity |-> ""]
    /\ push = NoInvocation
    /\ dispatched = <<>>
    /\ act \in {NewActivity(SyncUnversionedRamp, in) : in \in RampInputs}
          \cup {NewActivity(CheckUnversionedRampUserDataPropagation, in) :
                   in \in CheckInputs}
          \cup {NewActivity(SyncDeploymentVersionUserDataFromWorkerDeployment, in) :
                   in \in SyncInputs}
    /\ gor = <<>>
    /\ mu = {}
    /\ maxVersionByName = {}
    /\ AuxIdle

NextFan ==
    \/ DescribeVersion
    \/ Spawn
    \/ \E i \in 1..Len(gor) :
         \/ GoCall(i)
         \/ GoReturn(i)
         \/ GoLock(i)
         \/ GoStore(i)
         \/ Receive(i)
    \/ ActivityReturn

SpecFan == InitFan /\ [][NextFan]_vars

(***************************************************************************)
(* The persistence factory's constructor and its vending methods.          *)
(***************************************************************************)
\* the arguments of NewFactory that decide how the objects are wrapped
FactoryArgs ==
    [systemRateLimiter : {NilPtr, "limiter"},
     namespaceRateLimiter : {NilPtr, "limiter"},
     shardRateLimiter : {NilPtr, "limiter"},
     metricsHandler : {NilPtr, "handler"},
     healthSignals : {NilPtr, "aggregator"}]

\* factoryImpl.initDependencies
initDependencies(f) ==
    IF f.metricsHandler = NilPtr /\ f.healthSignals = NilPtr
    THEN f
    ELSE [f EXCEPT
            !.metricsHandler = IF f.metricsHandler = NilPtr
                               THEN "NoopMetricsHandler" ELSE f.metricsHandler,
            !.healthSignals = IF f.healthSignals = NilPtr
                              THEN "NoopHealthSignalAggregator" ELSE f.healthSignals,
            !.healthSignalsStarted = TRUE]

\* NewFactory
NewFactory(args) ==
    initDependencies(
        [built |-> TRUE,
         systemRateLimiter |-> args.systemRateLimiter,
         namespaceRateLimiter |-> args.namespaceRateLimiter,
         shardRateLimiter |-> args.shardRateLimiter,
         metricsHandler |-> args.metricsHandler,
         healthSignals |-> args.healthSignals,
         healthSignalsStarted |-> FALSE,
         closed |-> FALSE])

\* the clients a vending method wraps around a manager
RateLimitedClient(f) ==
    IF f.systemRateLimiter # NilPtr /\ f.namespaceRateLimiter # NilPtr
    THEN <<"RateLimitedClient">> ELSE <<>>

MetricsClient(f) ==
    IF f.metricsHandler # NilPtr /\ f.healthSignals # NilPtr
    THEN <<"MetricsClient">> ELSE <<>>

\* manager, rate-limited client, metrics client, retryable client
Wrapped(f, manager) ==
    <<manager>> \o RateLimitedClient(f) \o MetricsClient(f) \o <<"RetryableClient">>

\* the errors of the data store factory
StoreErrors == {Unavailable}

\* a vending method: the store is created, and on success the layers are built
Vend(kind, layers) ==
    /\ factory.built
    /\ \E err \in {Nil} \cup StoreErrors :
         vended' = [kind |-> kind, err |-> err,
                    layers |-> IF err = Nil THEN layers ELSE <<>>]
    /\ UNCHANGED <<delVars, pushVars, fanVars, svcVars, authVars, esVars, factory>>

NewTaskManager == Vend("TaskManager", Wrapped(factory, "TaskManager"))

NewFairTaskManager == Vend("FairTaskManager", Wrapped(factory, "TaskManager"))

NewShardManager == Vend("ShardManager", Wrapped(factory, "ShardManager"))

NewMetadataManager == Vend("MetadataManager", Wrapped(factory, "MetadataManagerImpl"))

NewClusterMetadataManager ==
    Vend("ClusterMetadataManager", Wrapped(factory, "ClusterMetadataManagerImpl"))

NewExecutionManager == Vend("ExecutionManager", Wrapped(factory, "ExecutionManager"))

\* the queue is wrapped, and the replication queue is built on the wrapped queue
NewNamespaceReplicationQueue ==
    Vend("NamespaceReplicationQueue",
         Wrapped(factory, "Queue") \o <<"NamespaceReplicationQueue">>)

\* the manager is returned as built on the queue
NewHistoryTaskQueueManager ==
    Vend("HistoryTaskQueueManager", <<"HistoryTaskQueueManager">>)

NewNexusEndpointManager ==
    Vend("NexusEndpointManager", Wrapped(factory, "NexusEndpointManager"))

\* factoryImpl.Close
Close ==
    /\ factory.built
    /\ ~factory.closed
    /\ factory' = [factory EXCEPT
                     !.closed = TRUE,
                     !.healthSignalsStarted =
                        IF factory.healthSignals # NilPtr
                        THEN FALSE ELSE factory.healthSignalsStarted]
    /\ UNCHANGED <<delVars, pushVars, fanVars, svcVars, authVars, esVars, vended>>

InitFactory ==
    /\ ms = [CloseTransferTaskId |-> 0, CloseVersion |-> 1]
    /\ exists = TRUE
    /\ queueState = [found |-> FALSE, ackLevel |-> 1, acked |-> {}]
    /\ closeTaskDone = FALSE
    /\ lockHolders = {}
    /\ call = [c \in Callers |-> IdleCall([hasVersion |-> FALSE, version |-> EmptyVersion], 0)]
    /\ shard = [ClusterID |-> 1, ShardID |-> 3]
    /\ assigned = [workflow |-> "", activity |-> ""]
    /\ push = NoInvocation
    /\ dispatched = <<>>
    /\ FanIdle
    /\ factory \in {NewFactory(args) : args \in FactoryArgs}
    /\ vended = NoObject
    /\ SvcIdle
    /\ AuthIdle
    /\ EsIdle

NextFactory ==
    \/ NewTaskManager
    \/ NewFairTaskManager
    \/ NewShardManager
    \/ NewMetadataManager
    \/ NewClusterMetadataManager
    \/ NewExecutionManager
    \/ NewNamespaceReplicationQueue
    \/ NewHistoryTaskQueueManager
    \/ NewNexusEndpointManager
    \/ Close

SpecFactory == InitFactory /\ [][NextFactory]_vars

(***************************************************************************)
(* Frontend Service: Start and Stop.  Source: src/unnamed/part_000, lines  *)
(* 430-527.  Time is counted in ticks of half a second.  The Service       *)
(* records every call it makes on a collaborator in svc.calls.             *)
(***************************************************************************)
\* longest configured duration, in ticks
MaxDuration == 3
\* most RPCs in flight on the gRPC server
MaxRpcs == 2
\* time.Second, in ticks
Second == 2

\* a configured duration may be negative
Durations == -1..MaxDuration

ServiceConfigs ==
    [ShutdownDrainDuration : Durations, ShutdownFailHealthCheckDuration : Durations]

Call(on, method) == [on |-> on, method |-> method]

\* NewService: the HTTP API server and the metrics handler may be nil
NewService(config, httpAPIServer, metricsHandler) ==
    [pc |-> "new", config |-> config,
     httpAPIServer |-> httpAPIServer, metricsHandler |-> metricsHandler,
     requestDrainTime |-> 0, failureDetectionTime |-> 0,
     next |-> 1, slept |-> 0, wg |-> 0, calls |-> <<>>]

\* the servers handed to NewService, and the goroutines Stop starts:
\* drain and httpDrain are the positions of the two draining goroutines,
\* afterFunc the position of the goroutine the timer starts when it fires
NewServer(httpAPIServer) ==
    [grpc |-> "created",
     http |-> IF httpAPIServer # NilPtr THEN "created" ELSE "none",
     health |-> "SERVING", draining |-> FALSE, rpcs |-> 0,
     drain |-> "none", httpDrain |-> "none",
     timer |-> "none", remaining |-> 0, afterFunc |-> "none"]

\* the components Start starts, in the order of its calls
StartCalls ==
    << Call("versionChecker", "Start"), Call("adminHandler", "Start"),
       Call("operatorHandler", "Start"), Call("handler", "Start") >>

\* Start: the components are started and the servers begin to serve
Start ==
    /\ svc.pc = "new"
    /\ svc' = [svc EXCEPT !.pc = "started", !.calls = @ \o StartCalls]
    /\ srv' = [srv EXCEPT !.grpc = "serving",
                          !.http = IF svc.httpAPIServer # NilPtr THEN "serving" ELSE @]
    /\ UNCHANGED <<delVars, pushVars, fanVars, factoryVars, authVars, esVars>>

\* a client request arrives at the gRPC server
RpcArrive ==
    /\ srv.grpc = "serving"
    /\ srv.rpcs < MaxRpcs
    /\ srv' = [srv EXCEPT !.rpcs = @ + 1]
    /\ UNCHANGED <<delVars, pushVars, fanVars, factoryVars, authVars, esVars, svc>>

\* a request in flight completes
RpcFinish ==
    /\ srv.grpc \in {"serving", "draining"}
    /\ srv.rpcs > 0
    /\ srv' = [srv EXCEPT !.rpcs = @ - 1]
    /\ UNCHANGED <<delVars, pushVars, fanVars, factoryVars, authVars, esVars, svc>>

RequestDrainTime_NoFloor(config) == config.ShutdownDrainDuration

RequestDrainTime(config) == max(Second, config.ShutdownDrainDuration)

FailureDetectionTime_MayBeNegative(config) == config.ShutdownFailHealthCheckDuration

FailureDetectionTime(config) == max(0, config.ShutdownFailHealthCheckDuration)

\* Stop is called: the two times are computed
StopEnter ==
    /\ svc.pc = "started"
    /\ svc' = [svc EXCEPT !.pc = "stopping",
                          !.requestDrainTime = RequestDrainTime(svc.config),
                          !.failureDetectionTime = FailureDetectionTime(svc.config)]
    /\ UNCHANGED <<delVars, pushVars, fanVars, factoryVars, authVars, esVars, srv>>

StopCalls_HandlersFirst ==
    << Call("handler", "Stop"), Call("operatorHandler", "Stop"),
       Call("adminHandler", "Stop"), Call("versionChecker", "Stop"),
       Call("healthServer", "Shutdown"), Call("membershipMonitor", "SetDraining"),
       Call("time", "Sleep"), Call("visibilityManager", "Close") >>

\* the calls Stop makes one after the other before it drains the servers
StopCalls ==
    << Call("healthServer", "Shutdown"), Call("membershipMonitor", "SetDraining"),
       Call("time", "Sleep"),
       Call("handler", "Stop"), Call("operatorHandler", "Stop"),
       Call("adminHandler", "Stop"), Call("versionChecker", "Stop"),
       Call("visibilityManager", "Close") >>

\* what a call of Stop does to the servers' state
AfterCall(s, c) ==
    IF c = Call("healthServer", "Shutdown") THEN [s EXCEPT !.health = "NOT_SERVING"]
    ELSE IF c = Call("membershipMonitor", "SetDraining") THEN [s EXCEPT !.draining = TRUE]
    ELSE s

\* Stop makes its next call; time.Sleep blocks it
StopCall ==
    /\ svc.pc = "stopping"
    /\ svc.next <= Len(StopCalls)
    /\ LET c == StopCalls[svc.next] IN
         /\ svc' = [svc EXCEPT !.calls = Append(@, c),
                               !.pc = IF c = Call("time", "Sleep") THEN "sleeping" ELSE @,
                               !.next = IF c = Call("time", "Sleep") THEN @ ELSE @ + 1]
         /\ srv' = AfterCall(srv, c)
    /\ UNCHANGED <<delVars, pushVars, fanVars, factoryVars, authVars, esVars>>

\* time passes while Stop sleeps
SleepTick ==
    /\ svc.pc = "sleeping"
    /\ svc.slept < svc.failureDetectionTime
    /\ svc' = [svc EXCEPT !.slept = @ + 1]
    /\ UNCHANGED <<delVars, pushVars, fanVars, factoryVars, authVars, esVars, srv>>

\* time.Sleep returns once the duration has passed (at once when it is zero)
SleepReturn ==
    /\ svc.pc = "sleeping"
    /\ svc.slept >= svc.failureDetectionTime
    /\ svc' = [svc EXCEPT !.pc = "stopping", !.next = @ + 1]
    /\ UNCHANGED <<delVars, pushVars, fanVars, factoryVars, authVars, esVars, srv>>

DrainGoroutines_GrpcOnly(s) == 1

\* the goroutines Stop adds to its WaitGroup
DrainGoroutines(s) == IF s.httpAPIServer # NilPtr THEN 2 ELSE 1

\* Stop starts the draining goroutines and waits for them
DrainStart ==
    /\ svc.pc = "stopping"
    /\ svc.next > Len(StopCalls)
    /\ svc' = [svc EXCEPT !.pc = "wait", !.wg = DrainGoroutines(svc)]
    /\ srv' = [srv EXCEPT !.drain = "start",
                          !.httpDrain = IF svc.httpAPIServer # NilPtr THEN "start" ELSE @]
    /\ UNCHANGED <<delVars, pushVars, fanVars, factoryVars, authVars, esVars>>

\* the gRPC goroutine arms the timer: time.AfterFunc(requestDrainTime, ...)
GrpcArmTimer ==
    /\ srv.drain = "start"
    /\ srv' = [srv EXCEPT !.drain = "armed", !.timer = "armed",
                          !.remaining = svc.requestDrainTime]
    /\ UNCHANGED <<delVars, pushVars, fanVars, factoryVars, authVars, esVars, svc>>

\* the gRPC goroutine calls server.GracefulStop: no new request is accepted
GrpcGracefulStop ==
    /\ srv.drain = "armed"
    /\ svc' = [svc EXCEPT !.calls = Append(@, Call("server", "GracefulStop"))]
    /\ srv' = [srv EXCEPT !.drain = "graceful",
                          !.grpc = IF @ = "serving" THEN "draining" ELSE @]
    /\ UNCHANGED <<delVars, pushVars, fanVars, factoryVars, authVars, esVars>>

\* time passes on the armed timer
TimerTick ==
    /\ srv.timer = "armed"
    /\ srv.remaining > 0
    /\ srv' = [srv EXCEPT !.remaining = @ - 1]
    /\ UNCHANGED <<delVars, pushVars, fanVars, factoryVars, authVars, esVars, svc>>

\* the drain time expires: the timer starts its function in a goroutine
TimerExpire ==
    /\ srv.timer = "armed"
    /\ srv.remaining = 0
    /\ srv' = [srv EXCEPT !.timer = "fired", !.afterFunc = "run"]
    /\ UNCHANGED <<delVars, pushVars, fanVars, factoryVars, authVars, esVars, svc>>

\* the timer's function: server.Stop() closes every connection
TimerFunc ==
    /\ srv.afterFunc = "run"
    /\ svc' = [svc EXCEPT !.calls = Append(@, Call("server", "Stop"))]
    /\ srv' = [srv EXCEPT !.afterFunc = "done", !.grpc = "stopped", !.rpcs = 0]
    /\ UNCHANGED <<delVars, pushVars, fanVars, factoryVars, authVars, esVars>>

\* server.GracefulStop returns: no request is in flight, or the server was stopped
GrpcGracefulReturn ==
    /\ srv.drain = "graceful"
    /\ srv.rpcs = 0 \/ srv.grpc = "stopped"
    /\ srv' = [srv EXCEPT !.drain = "returned", !.grpc = "stopped"]
    /\ UNCHANGED <<delVars, pushVars, fanVars, factoryVars, authVars, esVars, svc>>

\* t.Stop() and the deferred wg.Done() of the gRPC goroutine
GrpcTimerStop ==
    /\ srv.drain = "returned"
    /\ srv' = [srv EXCEPT !.drain = "done",
                          !.timer = IF @ = "armed" THEN "stopped" ELSE @]
    /\ svc' = [svc EXCEPT !.wg = @ - 1]
    /\ UNCHANGED <<delVars, pushVars, fanVars, factoryVars, authVars, esVars>>

\* the HTTP goroutine calls httpAPIServer.GracefulStop(requestDrainTime)
HttpGracefulStop ==
    /\ srv.httpDrain = "start"
    /\ svc' = [svc EXCEPT !.calls = Append(@, Call("httpAPIServer", "GracefulStop"))]
    /\ srv' = [srv EXCEPT !.httpDrain = "graceful", !.http = "draining"]
    /\ UNCHANGED <<delVars, pushVars, fanVars, factoryVars, authVars, esVars>>

\* httpAPIServer.GracefulStop returns, and the deferred wg.Done()
HttpGracefulReturn ==
    /\ srv.httpDrain = "graceful"
    /\ srv' = [srv EXCEPT !.httpDrain = "done", !.http = "stopped"]
    /\ svc' = [svc EXCEPT !.wg = @ - 1]
    /\ UNCHANGED <<delVars, pushVars, fanVars, factoryVars, authVars, esVars>>

\* wg.Wait() returns; the metrics handler is stopped when there is one
StopReturn ==
    /\ svc.pc = "wait"
    /\ svc.wg = 0
    /\ svc' = [svc EXCEPT !.pc = "stopped",
                          !.calls = IF svc.metricsHandler # NilPtr
                                    THEN Append(@, Call("metricsHandler", "Stop"))
                                    ELSE @]
    /\ UNCHANGED <<delVars, pushVars, fanVars, factoryVars, authVars, esVars, srv>>

InitStop ==
    /\ ms = [CloseTransferTaskId |-> 0, CloseVersion |-> 1]
    /\ exists = TRUE
    /\ queueState = [found |-> FALSE, ackLevel |-> 1, acked |-> {}]
    /\ closeTaskDone = FALSE
    /\ lockHolders = {}
    /\ call = [c \in Callers |-> IdleCall([hasVersion |-> FALSE, version |-> EmptyVersion], 0)]
    /\ shard = [ClusterID |-> 1, ShardID |-> 3]
    /\ assigned = [workflow |-> "", activity |-> ""]
    /\ push = NoInvocation
    /\ dispatched = <<>>
    /\ FanIdle
    /\ factory = NoFactory
    /\ vended = NoObject
    /\ AuthIdle
    /\ EsIdle
    /\ \E config \in ServiceConfigs, http \in {NilPtr, "set"}, metricsHandler \in {NilPtr, "set"} :
         /\ svc = NewService(config, http, metricsHandler)
         /\ srv = NewServer(http)

NextStop ==
    \/ Start
    \/ RpcArrive
    \/ RpcFinish
    \/ StopEnter
    \/ StopCall
    \/ SleepTick
    \/ SleepReturn
    \/ DrainStart
    \/ GrpcArmTimer
    \/ GrpcGracefulStop
    \/ TimerTick
    \/ TimerExpire
    \/ TimerFunc
    \/ GrpcGracefulReturn
    \/ GrpcTimerStop
    \/ HttpGracefulStop
    \/ HttpGracefulReturn
    \/ StopReturn

SpecStop == InitStop /\ [][NextStop]_vars

\* once Stop has been called, the Go scheduler runs Stop and every goroutine
\* it started, and time passes; nothing makes a request in flight complete
FairnessStop ==
    /\ WF_vars(StopCall)
    /\ WF_vars(SleepTick)
    /\ WF_vars(SleepReturn)
    /\ WF_vars(DrainStart)
    /\ WF_vars(GrpcArmTimer)
    /\ WF_vars(GrpcGracefulStop)
    /\ WF_vars(TimerTick)
    /\ WF_vars(TimerExpire)
    /\ WF_vars(TimerFunc)
    /\ WF_vars(GrpcGracefulReturn)
    /\ WF_vars(GrpcTimerStop)
    /\ WF_vars(HttpGracefulStop)
    /\ WF_vars(HttpGracefulReturn)
    /\ WF_vars(StopReturn)

SpecStopLive == InitStop /\ [][NextStop]_vars /\ FairnessStop

(***************************************************************************)
(* Default JWT claim mapper: GetClaims.  The mapper is exercised by the    *)
(* suite of src/unnamed/part_001, which fixes the tokens, the AuthInfo and *)
(* the claims expected for them.  A string is modelled as the sequence of  *)
(* its words and separators: "default:read" is <<"default", ":", "read">>. *)
(***************************************************************************)
\* most permissions in a token
MaxPermissions == 3

\* Role is a bit mask
RoleUndefined == 0
RoleWorker == 1
RoleReader == 2
RoleWriter == 4
RoleAdmin == 8

RoleBits == {RoleWorker, RoleReader, RoleWriter, RoleAdmin}

SystemLocalNamespace == "temporal-system"
testSubject == "test-user"
defaultNamespace == "default"
TestAudience == "test-audience"

ErrPermissionDenied == "PermissionDenied"

\* the namespaces and the permission words of the suite's tokens
NamespaceNames == {SystemLocalNamespace, "Temporal-system", defaultNamespace, "Foo"}
PermissionWords == {"read", "write", "worker", "admin"}
Subjects == {testSubject, "other-user"}

\* config.Authorization: no PermissionsRegex (permissions are written
\* namespace:role), or the regex (?P<role>\w+):(?P<namespace>\w+)
RoleFirst == "(?P<role>):(?P<namespace>)"
AuthorizationConfigs == {[PermissionsRegex |-> r] : r \in {"", RoleFirst}}

\* a grant of a role word on a namespace, written as a permission string
Grants == [namespace : NamespaceNames, word : PermissionWords]

PermissionString(config, g) ==
    IF config.PermissionsRegex = ""
    THEN <<g.namespace, ":", g.word>>
    ELSE <<g.word, ":", g.namespace>>

\* the token generator of the suite: subject, permissions and audience claims
generateToken(subject, permissions, audience) ==
    [sub |-> subject, permissions |-> permissions, aud |-> audience]

\* the two bit masks combined bit by bit
BitOr_LastWins(a, b) == b

RECURSIVE BitOr(_, _)
BitOr(a, b) ==
    IF a = 0 THEN b
    ELSE IF b = 0 THEN a
    ELSE (IF a % 2 = 1 \/ b % 2 = 1 THEN 1 ELSE 0) + 2 * BitOr(a \div 2, b \div 2)

permissionToRole(word) ==
    CASE word = "read" -> RoleReader
      [] word = "write" -> RoleWriter
      [] word = "worker" -> RoleWorker
      [] word = "admin" -> RoleAdmin
      [] OTHER -> RoleUndefined

\* strings.ToLower on the names of the model
ToLower(s) ==
    CASE s = "Temporal-system" -> "temporal-system"
      [] s = "Foo" -> "foo"
      [] OTHER -> s

IsSystemNamespace_CaseFolded(namespace) == ToLower(namespace) = ToLower(SystemLocalNamespace)

IsSystemNamespace(namespace) == namespace = SystemLocalNamespace

\* the parts of a permission string between its separators
Split(p) == SelectSeq(p, LAMBDA t : t # ":")

\* the namespace and the role named by a permission string
ParsePermission(config, p) ==
    LET parts == Split(p) IN
      IF config.PermissionsRegex = ""
      THEN [namespace |-> parts[1], role |-> permissionToRole(parts[2])]
      ELSE [namespace |-> parts[2], role |-> permissionToRole(parts[1])]

NoClaims == [Subject |-> "", System |-> RoleUndefined, Namespaces |-> {}]

\* the permissions are folded into the claims, first to last
RECURSIVE extractPermissions(_, _, _)
extractPermissions(config, permissions, claims) ==
    IF permissions = <<>> THEN claims
    ELSE LET p == ParsePermission(config, Head(permissions))
             next ==
               IF IsSystemNamespace(p.namespace)
               THEN [claims EXCEPT !.System = BitOr(@, p.role)]
               ELSE [claims EXCEPT
                       !.Namespaces =
                          MapPut(@, p.namespace,
                                 BitOr(MapGet(claims.Namespaces, p.namespace), p.role))]
         IN extractPermissions(config, Tail(permissions), next)

VerifyAudience_EmptyChecked(token, audience) ==
    \E i \in 1..Len(token.aud) : token.aud[i] = audience

\* the audience of the token is checked when an audience is expected
VerifyAudience(token, audience) ==
    audience = "" \/ \E i \in 1..Len(token.aud) : token.aud[i] = audience

\* GetClaims: the token is parsed and verified, then its claims are mapped
GetClaims ==
    /\ auth.pc = "ready"
    /\ LET token == auth.authInfo.AuthToken IN
         IF ~VerifyAudience(token, auth.authInfo.Audience)
         THEN auth' = [auth EXCEPT !.pc = "done", !.err = ErrPermissionDenied]
         ELSE auth' = [auth EXCEPT
                         !.pc = "done",
                         !.claims = extractPermissions(auth.config, token.permissions,
                                                       [NoClaims EXCEPT !.Subject = token.sub])]
    /\ UNCHANGED <<delVars, pushVars, fanVars, factoryVars, svcVars, esVars>>

\* the mapper is ready for another call
NewCall(config, authInfo, grants) ==
    [pc |-> "ready", config |-> config, authInfo |-> authInfo, grants |-> grants,
     claims |-> NoClaims, err |-> Nil]

\* the grants of the suite's tokens
permissionsAdmin ==
    << [namespace |-> SystemLocalNamespace, word |-> "admin"],
       [namespace |-> defaultNamespace, word |-> "read"] >>
permissionsReaderWriterWorker ==
    << [namespace |-> defaultNamespace, word |-> "read"],
       [namespace |-> defaultNamespace, word |-> "write"],
       [namespace |-> defaultNamespace, word |-> "worker"] >>
permissionsCaseSensitive ==
    << [namespace |-> "Temporal-system", word |-> "admin"],
       [namespace |-> "Foo", word |-> "read"] >>

\* the audiences a token carries and the audiences expected of it
TokenAudiences == {<<TestAudience>>, <<"foo">>, <<"bar", TestAudience>>, <<>>}
ExpectedAudiences == {"", TestAudience, "foo"}

\* the inputs of GetClaims: every list of grants with the suite's audience
\* and no audience expected, and the suite's grants with every audience
ClaimInputs ==
    {[grants |-> gs, subject |-> s, aud |-> <<TestAudience>>, audience |-> ""] :
        gs \in SeqsUpTo(Grants, MaxPermissions), s \in Subjects}
    \cup
    {[grants |-> gs, subject |-> testSubject, aud |-> aud, audience |-> a] :
        gs \in {permissionsAdmin, permissionsReaderWriterWorker, permissionsCaseSensitive},
        aud \in TokenAudiences, a \in ExpectedAudiences}

InitClaims ==
    /\ ms = [CloseTransferTaskId |-> 0, CloseVersion |-> 1]
    /\ exists = TRUE
    /\ queueState = [found |-> FALSE, ackLevel |-> 1, acked |-> {}]
    /\ closeTaskDone = FALSE
    /\ lockHolders = {}
    /\ call = [c \in Callers |-> IdleCall([hasVersion |-> FALSE, version |-> EmptyVersion], 0)]
    /\ shard = [ClusterID |-> 1, ShardID |-> 3]
    /\ assigned = [workflow |-> "", activity |-> ""]
    /\ push = NoInvocation
    /\ dispatched = <<>>
    /\ FanIdle
    /\ factory = NoFactory
    /\ vended = NoObject
    /\ SvcIdle
    /\ EsIdle
    /\ \E config \in AuthorizationConfigs, inp \in ClaimInputs :
         LET permissions == [i \in 1..Len(inp.grants) |-> PermissionString(config, inp.grants[i])]
             token == generateToken(inp.subject, permissions, inp.aud)
         IN auth = NewCall(config, [AuthToken |-> token, Audience |-> inp.audience], inp.grants)

NextClaims == GetClaims

SpecClaims == InitClaims /\ [][NextClaims]_vars

(***************************************************************************)
(* ESClient.IsPointInTimeSupported and queryPointInTimeSupported.  Source: *)
(* src/common/persistence/visibility/store/elasticsearch/client/client.go, *)
(* lines 610-646.  A version number is the sequence of its parts, a part   *)
(* that is no number being -1.                                             *)
(***************************************************************************)
\* calls of IsPointInTimeSupported a caller makes
MaxPitCalls == 2

pointInTimeSupportedFlavor == "default"

\* semver.ParseTolerant: missing minor and patch are 0; a part that is no
\* number is an error
ParseTolerant(number) ==
    IF number = <<>> \/ \E i \in 1..Len(number) : number[i] < 0
    THEN [err |-> "parse error", version |-> <<0, 0, 0>>]
    ELSE [err |-> Nil,
          version |-> [i \in 1..3 |-> IF i <= Len(number) THEN number[i] ELSE 0]]

\* the range accepting every version
pointInTimeSupportedIn_AnyVersion(v) == TRUE

\* semver.MustParseRange(">=7.10.0")
pointInTimeSupportedIn(v) ==
    \/ v[1] > 7
    \/ v[1] = 7 /\ v[2] > 10
    \/ v[1] = 7 /\ v[2] = 10 /\ v[3] >= 0

\* the outcomes of the info request: a transport error, an error response,
\* a body that cannot be decoded, or the version information
InfoNumbers == {<<7, 10, 0>>, <<7, 9, 3>>, <<8>>, <<-1>>}
InfoResults ==
    {[kind |-> k, BuildFlavor |-> "", Number |-> <<>>] :
        k \in {"error", "error response", "decode error"}}
    \cup {[kind |-> "info", BuildFlavor |-> f, Number |-> n] :
            f \in {pointInTimeSupportedFlavor, "oss"}, n \in InfoNumbers}

\* the value queryPointInTimeSupported computes from the outcome
queryPointInTimeSupported(res) ==
    IF res.kind # "info" THEN FALSE
    ELSE IF res.BuildFlavor # pointInTimeSupportedFlavor THEN FALSE
    ELSE LET parsed == ParseTolerant(res.Number) IN
           IF parsed.err # Nil THEN FALSE
           ELSE pointInTimeSupportedIn(parsed.version)

\* a caller outside IsPointInTimeSupported
IdleCaller == [pc |-> "idle", calls |-> 0, returned |-> FALSE, ret |-> FALSE]

\* NewESClient: the Once has not run, the cached answer is the zero value
NewESClient ==
    [once |-> "idle", isPointInTimeSupported |-> FALSE, queries |-> <<>>,
     callers |-> [c \in Callers |-> IdleCaller]]

\* a function run by every caller that arrives before the first has finished
RunsFunction_UntilDone(once) == once # "done"

\* sync.Once.Do runs the function for the first caller only
RunsFunction(once) == once = "idle"

\* a caller enters IsPointInTimeSupported
PitCall(c) ==
    /\ es.callers[c].pc = "idle"
    /\ es.callers[c].calls < MaxPitCalls
    /\ es' = [es EXCEPT !.callers[c].pc = "do",
                        !.callers[c].calls = @ + 1,
                        !.callers[c].returned = FALSE]
    /\ UNCHANGED <<delVars, pushVars, fanVars, factoryVars, svcVars, authVars>>

\* Once.Do: the first caller runs the function and sends the info request; a
\* caller that finds the function running waits for it
OnceDo(c) ==
    /\ es.callers[c].pc = "do"
    /\ RunsFunction(es.once)
    /\ es' = [es EXCEPT !.once = "running", !.callers[c].pc = "query"]
    /\ UNCHANGED <<delVars, pushVars, fanVars, factoryVars, svcVars, authVars>>

\* Once.Do returns without running the function: it has been run
OnceSkip(c) ==
    /\ es.callers[c].pc = "do"
    /\ es.once = "done"
    /\ es' = [es EXCEPT !.callers[c].pc = "read"]
    /\ UNCHANGED <<delVars, pushVars, fanVars, factoryVars, svcVars, authVars>>

\* the info request returns; its answer is stored and the Once is done
QueryReturn(c) ==
    /\ es.callers[c].pc = "query"
    /\ \E res \in InfoResults :
         es' = [es EXCEPT !.queries = Append(@, res),
                          !.isPointInTimeSupported = queryPointInTimeSupported(res),
                          !.once = "done",
                          !.callers[c].pc = "read"]
    /\ UNCHANGED <<delVars, pushVars, fanVars, factoryVars, svcVars, authVars>>

\* return c.isPointInTimeSupported
PitReturn(c) ==
    /\ es.callers[c].pc = "read"
    /\ es' = [es EXCEPT !.callers[c].pc = "idle",
                        !.callers[c].returned = TRUE,
                        !.callers[c].ret = es.isPointInTimeSupported]
    /\ UNCHANGED <<delVars, pushVars, fanVars, factoryVars, svcVars, authVars>>

InitEs ==
    /\ ms = [CloseTransferTaskId |-> 0, CloseVersion |-> 1]
    /\ exists = TRUE
    /\ queueState = [found |-> FALSE, ackLevel |-> 1, acked |-> {}]
    /\ closeTaskDone = FALSE
    /\ lockHolders = {}
    /\ call = [c \in Callers |-> IdleCall([hasVersion |-> FALSE, version |-> EmptyVersion], 0)]
    /\ shard = [ClusterID |-> 1, ShardID |-> 3]
    /\ assigned = [workflow |-> "", activity |-> ""]
    /\ push = NoInvocation
    /\ dispatched = <<>>
    /\ FanIdle
    /\ factory = NoFactory
    /\ vended = NoObject
    /\ SvcIdle
    /\ AuthIdle
    /\ es = NewESClient

NextEs ==
    \E c \in Callers :
       \/ PitCall(c)
       \/ OnceDo(c)
       \/ OnceSkip(c)
       \/ QueryReturn(c)
       \/ PitReturn(c)

SpecEs == InitEs /\ [][NextEs]_vars

(***************************************************************************)
(* Specification of the deletion coordinator: the callers of the set A     *)
(* process delete tasks of one closed workflow; Spec is one goroutine of   *)
(* the processing loop running its tasks one after the other.              *)
(***************************************************************************)
InitDelete(A) ==
    /\ ms \in [CloseTransferTaskId : {0} \cup TaskIDs, CloseVersion : Versions]
    /\ exists = TRUE
    /\ queueState \in [found : BOOLEAN, ackLevel : {1}, acked : {{}}]
    /\ closeTaskDone = FALSE
    /\ lockHolders = {}
    /\ call \in {f \in [Callers -> {IdleCall(t, 0) : t \in DeleteTasks}] :
                    \A c \in Callers \ A : ~f[c].task.hasVersion}
    /\ shard = [ClusterID |-> 1, ShardID |-> 3]
    /\ assigned = [workflow |-> "", activity |-> ""]
    /\ push = NoInvocation
    /\ dispatched = <<>>
    /\ FanIdle
    /\ AuxIdle

NextDelete(A) ==
    \/ \E c \in A :
         \/ DeleteStart(c)
         \/ Load(c)
         \/ Guard(c)
         \/ Version(c)
         \/ Delete(c)
         \/ Release(c)
         \/ Retry(c)
         \/ NextTask(c)
    \/ CloseTaskComplete
    \/ QueueStateCreate
    \/ AckLevelAdvance
    \/ AckOutOfOrder

Init == InitDelete({1})

Next == NextDelete({1})

Spec == Init /\ [][Next]_vars

(***************************************************************************)
(* Concurrent deletion: every caller is a goroutine of the processing loop *)
(* holding one delete task of the same closed workflow, which it retries   *)
(* until the deletion succeeds, while the close task completes and the     *)
(* transfer queue's ack level moves.                                       *)
(***************************************************************************)
InitRetrying(A) ==
    /\ InitDelete(A)
    /\ ms.CloseVersion = 1
    /\ ms.CloseTransferTaskId # 0
    /\ \A c \in Callers : ~call[c].task.hasVersion

\* the calls are those of processDeleteExecutionTask: the guard is enabled
NextRetrying(A) ==
    \/ \E c \in A :
         \/ DeleteStart(c) /\ call'[c].ensure
         \/ Load(c)
         \/ Guard(c)
         \/ Version(c)
         \/ Delete(c)
         \/ Release(c)
         \/ Retry(c)
    \/ CloseTaskComplete
    \/ QueueStateCreate
    \/ AckLevelAdvance
    \/ AckOutOfOrder

InitConc == InitRetrying(Callers)

NextConc == NextRetrying(Callers)

SpecConc == InitConc /\ [][NextConc]_vars

(***************************************************************************)
(* One retried delete task under the conditions a deletion is waited for:  *)
(* the close task completes and the queue state is published and acks what *)
(* has completed (weak fairness of the environment), the goroutine of the  *)
(* call is scheduled and the loop retries a failed task (weak fairness of  *)
(* the steps), and the lock acquisition and the load do not fail forever   *)
(* (strong fairness of their successful outcome).                          *)
(***************************************************************************)
InitLive == InitRetrying({1})

NextLive == NextRetrying({1})

LockAcquired(c) == DeleteStart(c) /\ call'[c].ensure /\ c \in lockHolders'

LoadSucceeded(c) == Load(c) /\ call'[c].pc = "guard"

FairnessLive ==
    /\ WF_vars(CloseTaskComplete)
    /\ WF_vars(QueueStateCreate)
    /\ WF_vars(AckLevelAdvance)
    /\ SF_vars(LockAcquired(1))
    /\ SF_vars(LoadSucceeded(1))
    /\ WF_vars(Guard(1))
    /\ WF_vars(Version(1))
    /\ WF_vars(Delete(1))
    /\ WF_vars(Release(1))
    /\ WF_vars(Retry(1))

SpecLive == InitLive /\ [][NextLive]_vars /\ FairnessLive

(***************************************************************************)
(* Specification of the task dispatcher: the processing loop of one shard  *)
(* dispatches activity and workflow tasks of one open workflow.            *)
(***************************************************************************)
InitPush ==
    /\ ms = [CloseTransferTaskId |-> 0, CloseVersion |-> 1]
    /\ exists = TRUE
    /\ queueState = [found |-> FALSE, ackLevel |-> 1, acked |-> {}]
    /\ closeTaskDone = FALSE
    /\ lockHolders = {}
    /\ call = [c \in Callers |-> IdleCall([hasVersion |-> FALSE, version |-> EmptyVersion], 0)]
    /\ shard = [ClusterID |-> 1, ShardID |-> 3]
    /\ assigned = [workflow |-> "", activity |-> ""]
    /\ push = NoInvocation
    /\ dispatched = <<>>
    /\ FanIdle
    /\ AuxIdle

NextPush ==
    \/ pushActivity
    \/ pushWorkflowTask

SpecPush == InitPush /\ [][NextPush]_vars

(***************************************************************************)
(* Properties of the deletion coordinator, checked under Spec.             *)
(***************************************************************************)
Has(seq, x) == \E i \in 1..Len(seq) : seq[i] = x
Count(seq, x) == Cardinality({i \in 1..Len(seq) : seq[i] = x})

\* the call has loaded the mutable state and has got past the guard step
Loaded(c) ==
    /\ Has(call[c].trace, "load")
    /\ call[c].ret \notin {ErrLoadMutableState, ErrNotFound}
    /\ call[c].pc # "guard"

\* the call has got past the version-check step
PastVersionStep(c) ==
    /\ Loaded(c)
    /\ call[c].pc # "version"
    /\ call[c].ret # ErrDependencyTaskNotCompleted

\* the call has released the lock and returned
Returned(c) == call[c].pc = "done"

\* the guard of the call ran with the guard enabled, a close task id T # 0
\* and a queue state in which T is at or above the ack level and not acked
SawCloseTaskNotAcked(c) ==
    /\ Loaded(c)
    /\ call[c].ensure
    /\ ms.CloseTransferTaskId # 0
    /\ call[c].transferQueueState.read
    /\ call[c].transferQueueState.found
    /\ call[c].transferQueueState.ackLevel <= ms.CloseTransferTaskId
    /\ ms.CloseTransferTaskId \notin call[c].transferQueueState.acked

\* C1: with the guard enabled, a close task id T # 0 and a transfer queue
\* state whose ack level is <= T and that does not hold T as acked,
\* deleteExecution returns ErrDependencyTaskNotCompleted, never invokes
\* DeleteWorkflowExecution, and releases the lock.
C1_GuardBlocksDeletion ==
    \A c \in Callers :
        SawCloseTaskNotAcked(c) =>
            /\ call[c].ret = ErrDependencyTaskNotCompleted
            /\ call[c].pc \in {"release", "done"}
            /\ ~Has(call[c].trace, "delete")
            /\ Returned(c) =>
                 /\ c \notin lockHolders
                 /\ Count(call[c].trace, "release") = 1

C1_Witness ==
    \E c \in Callers :
        /\ SawCloseTaskNotAcked(c)
        /\ Returned(c)
        /\ call[c].ret = ErrDependencyTaskNotCompleted

\* the version check of the call fails: GetCloseVersion fails, or the task
\* carries a version other than EmptyVersion and other than the close version
VersionCheckFailed(c) ==
    call[c].ret \in {ErrCloseVersion, ErrTaskVersionMismatch}

\* C2 as stated: with CloseTransferTaskId = 0, once the mutable state is
\* loaded, deleteExecution invokes DeleteWorkflowExecution, whatever the
\* queue state and the guard flag.
C2_Original ==
    \A c \in Callers :
        (Returned(c) /\ Loaded(c) /\ ms.CloseTransferTaskId = 0)
            => Has(call[c].trace, "delete")

\* C2 as amended: with CloseTransferTaskId = 0, once the mutable state is
\* loaded, the guard never fails and never reads the queue state, whatever
\* the queue state and the guard flag, and deleteExecution invokes
\* DeleteWorkflowExecution unless the version check that follows fails.
C2_LegacySentinelBypassesGuard ==
    \A c \in Callers :
        (Loaded(c) /\ ms.CloseTransferTaskId = 0) =>
            /\ call[c].ret # ErrDependencyTaskNotCompleted
            /\ ~call[c].transferQueueState.read
            /\ Returned(c) => (Has(call[c].trace, "delete") <=> ~VersionCheckFailed(c))

C2_Witness ==
    \E c \in Callers :
        /\ Returned(c) /\ Loaded(c)
        /\ ms.CloseTransferTaskId = 0
        /\ call[c].ensure
        /\ ~queueState.found
        /\ Has(call[c].trace, "delete")

\* C3: on every exit path of deleteExecution after the lock was acquired the
\* release callback is called exactly once, as the last thing the call does,
\* and its argument is the error deleteExecution returns (nil on success);
\* before the call returns the release has not been called.
C3_ReleaseOnceWithReturnedError ==
    \A c \in Callers :
        /\ (Returned(c) /\ Has(call[c].trace, "lock")) =>
              /\ Count(call[c].trace, "release") = 1
              /\ call[c].trace[Len(call[c].trace)] = "release"
              /\ call[c].releaseArg = call[c].ret
              /\ c \notin lockHolders
        /\ ~Returned(c) =>
              /\ Count(call[c].trace, "release") = 0
              /\ call[c].releaseArg = "none"

C3_Witness ==
    \E c \in Callers :
        /\ Returned(c)
        /\ call[c].ret = ErrDeleteFailed
        /\ call[c].releaseArg = ErrDeleteFailed
        /\ Count(call[c].trace, "release") = 1

\* the external calls deleteExecution makes before DeleteWorkflowExecution
StepsBeforeDelete(c) ==
    <<"lock", "load">>
    \o (IF call[c].ensure THEN <<"guard">> ELSE <<>>)
    \o (IF TaskVersion(call[c].task) # EmptyVersion
        THEN <<"getCloseVersion", "checkVersion">> ELSE <<>>)

\* C4: in one call DeleteWorkflowExecution is invoked at most once and only
\* after the lock, the load, the guard (when enabled) and the version check
\* (when the task carries a version), in this order, with the guard and the
\* version check passed; an error of one of these steps is what the call
\* returns, and then DeleteWorkflowExecution is not invoked.
C4_DeleteOnlyAfterAllSteps ==
    \A c \in Callers :
        /\ Count(call[c].trace, "delete") <= 1
        /\ Has(call[c].trace, "delete") =>
              /\ SubSeq(call[c].trace, 1, Len(StepsBeforeDelete(c)) + 1)
                    = StepsBeforeDelete(c) \o <<"delete">>
              /\ (call[c].ensure /\ ms.CloseTransferTaskId # 0) =>
                    /\ call[c].transferQueueState.read
                    /\ call[c].transferQueueState.found
                    /\ IsTaskAcked(ms.CloseTransferTaskId, call[c].transferQueueState)
              /\ TaskVersion(call[c].task) # EmptyVersion =>
                    TaskVersion(call[c].task) = ms.CloseVersion
              /\ call[c].ret \in {Nil, ErrDeleteFailed}
        /\ call[c].ret \in {ErrLockAcquire, ErrLoadMutableState, ErrNotFound,
                            ErrDependencyTaskNotCompleted, ErrCloseVersion,
                            ErrTaskVersionMismatch} =>
              ~Has(call[c].trace, "delete")

C4_Witness ==
    \E c \in Callers :
        /\ Returned(c)
        /\ call[c].ensure
        /\ ms.CloseTransferTaskId # 0
        /\ TaskVersion(call[c].task) # EmptyVersion
        /\ call[c].trace = <<"lock", "load", "guard", "getCloseVersion",
                             "checkVersion", "delete", "release">>

\* C5: a task with a version v other than EmptyVersion, GetCloseVersion
\* having returned c, passes the version check iff v = c, and a mismatch
\* aborts the deletion with the version-conflict error; a task with
\* EmptyVersion or with no version passes for every c, and the close version
\* is not resolved.
C5_VersionGate ==
    \A c \in Callers :
        PastVersionStep(c) =>
            LET v == TaskVersion(call[c].task)
            IN /\ v = EmptyVersion =>
                    /\ ~Has(call[c].trace, "getCloseVersion")
                    /\ ~Has(call[c].trace, "checkVersion")
                    /\ ~VersionCheckFailed(c)
                    /\ call[c].pc = "delete" \/ Has(call[c].trace, "delete")
               /\ v # EmptyVersion =>
                    /\ Has(call[c].trace, "getCloseVersion")
                    /\ Has(call[c].trace, "checkVersion") =>
                         /\ call[c].ret = ErrTaskVersionMismatch <=> v # ms.CloseVersion
                         /\ v = ms.CloseVersion =>
                              call[c].pc = "delete" \/ Has(call[c].trace, "delete")
                         /\ v # ms.CloseVersion =>
                              /\ call[c].pc \in {"release", "done"}
                              /\ ~Has(call[c].trace, "delete")

C5_Witness ==
    \E c \in Callers :
        /\ PastVersionStep(c)
        /\ TaskVersion(call[c].task) # EmptyVersion
        /\ TaskVersion(call[c].task) # ms.CloseVersion
        /\ call[c].ret = ErrTaskVersionMismatch
        /\ Returned(c)

(***************************************************************************)
(* Properties of the task dispatcher, checked under SpecPush.              *)
(***************************************************************************)
Pushed == push.kind # "none"

\* the add call of the last invocation and the update it is followed by
AddOp == IF push.kind = "activity" THEN "AddActivityTask" ELSE "AddWorkflowTask"
UpdateOp ==
    IF push.kind = "activity"
    THEN "updateIndependentActivityBuildId"
    ELSE "initializeWorkflowAssignedBuildId"

C7_OtherErrorsReturned ==
    (Pushed /\ push.resp.err \notin {Nil, NotFound}) =>
        /\ push.ret = push.resp.err
        /\ push.updates = <<>>
        /\ push.order = <<AddOp>>

C7_Witness ==
    /\ push.kind = "activity"
    /\ push.resp.err = Unavailable
    /\ push.directive = "useAssignmentRules"
    /\ push.ret = Unavailable

\* C8: when the directive requires the assignment rules and the add call
\* succeeds, the dispatcher issues exactly one mutable-state update, after
\* the add call, with the build id the worker-queue service returned and the
\* caller's transaction policy: updateIndependentActivityBuildId for an
\* activity task, initializeWorkflowAssignedBuildId for a workflow task.
C8_OneUpdateAfterAdd ==
    (Pushed /\ push.resp.err = Nil /\ push.directive = "useAssignmentRules") =>
        /\ push.order = <<AddOp, UpdateOp>>
        /\ Len(push.updates) = 1
        /\ push.updates[1].op = UpdateOp
        /\ push.updates[1].TaskID = push.task.TaskID
        /\ push.updates[1].buildId = push.resp.AssignedBuildId
        /\ push.updates[1].transactionPolicy = push.policy

C8_Witness ==
    /\ push.kind = "workflow"
    /\ push.task.TaskID = 42
    /\ push.directive = "useAssignmentRules"
    /\ push.resp = [err |-> Nil, AssignedBuildId |-> "b1"]
    /\ push.policy = "TransactionPolicyPassive"
    /\ push.order = <<"AddWorkflowTask", "initializeWorkflowAssignedBuildId">>
    /\ push.updates[1].buildId = "b1"
    /\ assigned.workflow = "b1"

\* C9: when the directive is absent or does not ask for the assignment
\* rules, an invocation attempts no mutable-state update, whether the add
\* call succeeded or failed, leaves the mutable state unchanged, and returns
\* nil when the add call succeeded.
C9_NoUpdateWithoutAssignmentRules ==
    [][(dispatched' # dispatched /\ push'.directive # "useAssignmentRules") =>
           /\ push'.updates = <<>>
           /\ push'.order = <<push'.adds[1].op>>
           /\ assigned' = assigned
           /\ push'.resp.err = Nil => push'.ret = Nil]_vars

C9_Witness ==
    /\ push.kind = "activity"
    /\ push.task.TaskID = 42
    /\ push.directive = "nil"
    /\ push.resp.err = Nil
    /\ push.ret = Nil
    /\ push.order = <<"AddActivityTask">>
    /\ assigned.activity = "b2"

\* the time.Duration a *durationpb.Duration stands for, in nanoseconds
AsNanos(d) == d.Seconds * 1000000000 + d.Nanos

\* C10: pushWorkflowTask puts a schedule-to-start timeout in the request iff
\* the given timeout is > 0 (then the given one); pushActivity always sends
\* the given timeout, also when it is zero.
C10_ScheduleToStartTimeout ==
    Pushed =>
        LET sst == push.adds[1].ScheduleToStartTimeout
        IN /\ push.kind = "workflow" =>
                /\ sst.set <=> push.timeout > 0
                /\ sst.set => AsNanos(sst) = push.timeout
           /\ push.kind = "activity" =>
                /\ sst.set
                /\ AsNanos(sst) = push.timeout

C10_Witness ==
    /\ push.kind = "workflow"
    /\ push.timeout = 0
    /\ ~push.adds[1].ScheduleToStartTimeout.set

\* C11: every add request of the dispatcher carries the vector clock
\* (cluster id of the shard's cluster, id of the shard, id of the task), so
\* two dispatches of tasks with different task ids carry different clocks.
C11_ClockIdentifiesTask ==
    /\ Pushed =>
          \A i \in 1..Len(push.adds) :
             push.adds[i].Clock = [ClusterId |-> shard.ClusterID,
                                   ShardId |-> shard.ShardID,
                                   Clock |-> push.task.TaskID]
    /\ \A i, j \in 1..Len(dispatched) :
          dispatched[i].TaskID # dispatched[j].TaskID
             => dispatched[i].Clock # dispatched[j].Clock

C11_Witness ==
    /\ Len(dispatched) = 2
    /\ dispatched[1].op = "AddActivityTask"
    /\ dispatched[2].op = "AddWorkflowTask"
    /\ dispatched[1].TaskID # dispatched[2].TaskID
    /\ dispatched[1].Clock.ShardId = dispatched[2].Clock.ShardId

\* C12: an invocation of the dispatcher makes exactly one add call, whatever
\* was dispatched before and whatever the call returned: the log of the
\* matching service grows by one entry, the entry of the invoked task.
C12_OneAddCallPerInvocation ==
    [][dispatched' # dispatched =>
          /\ Len(push'.adds) = 1
          /\ Count(push'.order, AddOp') = 1
          /\ Len(dispatched') = Len(dispatched) + 1
          /\ dispatched'[Len(dispatched')].op = AddOp'
          /\ dispatched'[Len(dispatched')].TaskID = push'.task.TaskID
          /\ dispatched'[Len(dispatched')].ScheduledEventId
                = push'.task.ScheduledEventID]_vars

\* the same task dispatched twice, the first call having failed: two calls
\* with the same scheduled-event id reached the matching service
C12_Witness ==
    /\ Len(dispatched) = 2
    /\ dispatched[1] = dispatched[2]
    /\ push.resp.err # Nil
    /\ Len(push.adds) = 1

\* C13: every call of deleteExecution requests the workflow lock for any
\* kind of execution (ArchetypeAny) and at low priority, for every task and
\* with the guard enabled or disabled, whether the lock is obtained or not.
C13_LockRequestedAtLowPriority ==
    \A c \in Callers :
       call[c].pc # "idle" =>
          /\ call[c].lockRequest.archetype = "ArchetypeAny"
          /\ call[c].lockRequest.priority = "PriorityLow"
          /\ call[c].lockRequest.priority \notin {"PriorityNormal", "PriorityHigh"}

C13_Witness ==
    \E c \in Callers :
       /\ ~call[c].ensure
       /\ call[c].task.hasVersion
       /\ Has(call[c].trace, "delete")
       /\ call[c].lockRequest.priority = "PriorityLow"

\* the ack check spelled out on the queue state a call has read
AckedIn(taskID, qs) == taskID < qs.ackLevel \/ taskID \in qs.acked

\* C14: for a queue state with ack level L the close task T is acked iff
\* T < L or T is one of the individually acked tasks, and for T # 0 and an
\* existing queue state the guard reports the close task as pending, and the
\* call returns ErrDependencyTaskNotCompleted, exactly when T is not acked.
C14_PendingIffNotAcked ==
    /\ \A t \in TaskIDs, l \in 1..(MaxTaskID + 1), a \in SUBSET TaskIDs :
          LET qs == [found |-> TRUE, ackLevel |-> l, acked |-> a]
          IN /\ IsTaskAcked(t, qs) <=> (t < l \/ t \in a)
             /\ (t >= l /\ t \notin a) => ~IsTaskAcked(t, qs)
             /\ isCloseExecutionTaskPending([ms EXCEPT !.CloseTransferTaskId = t], qs)
                   <=> ~IsTaskAcked(t, qs)
    /\ \A c \in Callers :
          (call[c].transferQueueState.read /\ call[c].transferQueueState.found) =>
             (call[c].ret = ErrDependencyTaskNotCompleted
                <=> ~AckedIn(ms.CloseTransferTaskId, call[c].transferQueueState))

\* the close task is above the ack level and acked individually: not pending
C14_Witness ==
    \E c \in Callers :
       /\ call[c].transferQueueState.read
       /\ call[c].transferQueueState.found
       /\ ms.CloseTransferTaskId >= call[c].transferQueueState.ackLevel
       /\ ms.CloseTransferTaskId \in call[c].transferQueueState.acked
       /\ Has(call[c].trace, "delete")

\* C19: a call with ensureNoPendingCloseTask = FALSE reads neither the
\* close-transfer-task id nor the queue state and never returns
\* ErrDependencyTaskNotCompleted: once the mutable state is loaded it goes on
\* to the version check, and to the deletion primitive unless that check
\* fails, also when the close task is not acked or there is no queue state.
C19_DisabledGuardNeverBlocks ==
    \A c \in Callers :
       (call[c].pc # "idle" /\ ~call[c].ensure) =>
          /\ call[c].ret # ErrDependencyTaskNotCompleted
          /\ ~call[c].transferQueueState.read
          /\ ~Has(call[c].trace, "guard")
          /\ (Returned(c) /\ Loaded(c)) =>
                (Has(call[c].trace, "delete") <=> ~VersionCheckFailed(c))
          /\ (Returned(c) /\ Loaded(c) /\ TaskVersion(call[c].task) # EmptyVersion) =>
                Has(call[c].trace, "checkVersion")
                   \/ call[c].ret = ErrCloseVersion

\* deletion with the guard disabled while the close task is not acked, and
\* while the shard has no transfer queue state
C19_Witness ==
    \E c \in Callers :
       /\ ~call[c].ensure
       /\ Has(call[c].trace, "delete")
       /\ ms.CloseTransferTaskId # 0
       /\ ~closeTaskDone
       /\ ~queueState.found

\* C17: when the close task completes, the ack level moves past it and a
\* call refused by the guard is retried, the guard does not refuse forever:
\* a call that returned ErrDependencyTaskNotCompleted is followed by an
\* attempt that passes the guard and invokes DeleteWorkflowExecution.
C17_GuardEventuallyPasses ==
    (call[1].pc = "done" /\ call[1].ret = ErrDependencyTaskNotCompleted)
       ~> (call[1].ensure /\ Has(call[1].trace, "guard")
             /\ Has(call[1].trace, "delete"))

\* an attempt refused by the guard before the close task had completed
C17_Witness ==
    /\ call[1].pc = "done"
    /\ call[1].ret = ErrDependencyTaskNotCompleted
    /\ call[1].transferQueueState.found
    /\ ~closeTaskDone

\* the call is between the acquisition of the lock and its release
InsideLock(c) == call[c].pc \in {"load", "guard", "version", "delete", "release"}

\* C15: a call holds the workflow's lock from the acquisition until it
\* returns: the load, the guard, the version check and the deletion primitive
\* all run under the lock and the release is the last thing the call does;
\* no two calls hold the lock at once, and no two concurrent calls are in
\* DeleteWorkflowExecution at the same time.
C15_LockHeldUntilReturn ==
    /\ \A c \in Callers : InsideLock(c) <=> c \in lockHolders
    /\ Cardinality(lockHolders) <= 1
    /\ \A c, d \in Callers :
          (c # d /\ InsideLock(c)) => ~InsideLock(d) /\ call[d].pc # "delete"
    /\ \A c \in Callers :
          Has(call[c].trace, "release") =>
             /\ call[c].trace[Len(call[c].trace)] = "release"
             /\ call[c].trace[1] = "lock"
             /\ Count(call[c].trace, "release") = 1

\* one call is in the deletion primitive while another call, which has run
\* the primitive before, is waiting for the lock
C15_Witness ==
    \E c, d \in Callers :
       /\ c # d
       /\ call[c].pc = "delete"
       /\ lockHolders = {c}
       /\ call[d].pc = "idle"
       /\ call[d].stage = 1

\* C16: with the guard enabled and a close task id T # 0, and the queue
\* state acking a task only after the task has completed, no call is in or
\* past DeleteWorkflowExecution while the close task has not completed.
C16_NoDeletionBeforeCloseTask ==
    \A c \in Callers :
       (call[c].ensure /\ ms.CloseTransferTaskId # 0
          /\ (call[c].pc = "delete" \/ Has(call[c].trace, "delete")))
       => /\ closeTaskDone
          /\ IsTaskAcked(ms.CloseTransferTaskId, call[c].transferQueueState)

\* one call was refused by the guard, another deleted after the close task
C16_Witness ==
    \E c, d \in Callers :
       /\ c # d
       /\ call[c].pc = "done" /\ call[c].ret = ErrDependencyTaskNotCompleted
       /\ call[d].ensure /\ Has(call[d].trace, "delete")
       /\ closeTaskDone

\* C18: the deletion primitive works on the task's own ProcessStage: only
\* DeleteWorkflowExecution changes the stage, deleteExecution and the retry
\* leave it alone, so an attempt starts from the stage the previous attempt
\* on the task recorded and the stage never goes backwards.
C18_StageKeptAcrossRetries ==
    [][\A c \in Callers :
          /\ call'[c].stage >= call[c].stage
          /\ call'[c].stage # call[c].stage =>
                (call[c].pc = "delete" /\ Has(call'[c].trace, "delete"))
          /\ (call[c].pc = "done" /\ call'[c].pc = "idle") =>
                (call'[c].stage = call[c].stage /\ call'[c].task = call[c].task)]_vars

\* a retried attempt in the deletion primitive, starting from the stage the
\* failed attempt before it recorded
C18_Witness ==
    \E c \in Callers :
       /\ call[c].pc = "delete"
       /\ call[c].stage = 1

\* the calls to the matching service that have been sent and have not returned
InFlight == Cardinality({i \in 1..Len(gor) : gor[i].pc = "call"})

\* C20 as stated: the in-flight calls of a fan-out activity stay under a hard
\* bound that does not grow with the number of task queues of the input; such
\* a bound is below the number of task queues of every input that is large
\* enough, and MaxTaskQueues stands for an input that large.
C20_Original == InFlight < MaxTaskQueues

\* C20 as amended: a fan-out activity starts one goroutine per task queue of
\* its input, each making one call, with no pool or semaphore: the in-flight
\* calls never exceed the number of task queues of the input (and, as the
\* witness shows, reach it).
C20_InFlightUpToInputSize ==
    /\ Len(gor) <= Len(act.entries)
    /\ Len(gor) = act.spawned
    /\ InFlight <= Len(act.entries)
    /\ \A i \in 1..Len(gor) : gor[i].entry = act.entries[i]

\* the calls for all the task queues of a largest input in flight at once
C20_Witness ==
    /\ act.kind = SyncDeploymentVersionUserDataFromWorkerDeployment
    /\ Len(act.entries) = MaxTaskQueues
    /\ InFlight = MaxTaskQueues

\* the activity has got to its fan-out (for SyncUnversionedRamp: DescribeVersion
\* has succeeded) and has returned
FanOutReturned == act.pc = "done" /\ act.fanOut

\* the goroutines whose result the activity has received
ReceivedFrom == {i \in 1..Len(gor) : gor[i].pc = "done"}

\* C21: a fan-out activity reduces the results of its per-task-queue calls
\* first-error-wins: the error it holds is nil as long as every result
\* received was nil and otherwise the first non-nil error received, later
\* ones being discarded; it returns nil iff every call succeeded, and on error
\* the two sync activities return a nil response, never a map.
C21_FirstErrorWins ==
    /\ [](FanOutReturned =>
            /\ act.ret.err = act.err
            /\ act.ret.err = Nil <=> \A i \in 1..Len(gor) : gor[i].err = Nil
            /\ act.ret.err # Nil => \E i \in 1..Len(gor) : gor[i].err = act.ret.err
            /\ (act.ret.err # Nil /\ KeepsMaxVersions(act.kind)) => act.ret.resp = "nil"
            /\ (act.ret.err = Nil /\ KeepsMaxVersions(act.kind)) =>
                  act.ret.resp = [TaskQueueMaxVersions |-> maxVersionByName])
    /\ [][\A i \in 1..Len(gor) :
             (gor[i].pc = "send" /\ gor'[i].pc = "done") =>
                act'.err = IF act.err # Nil THEN act.err ELSE gor[i].err]_vars

\* two calls failed with different errors; the error returned is that of the
\* second goroutine, whose result was received first
C21_Witness ==
    /\ FanOutReturned
    /\ act.kind = SyncDeploymentVersionUserDataFromWorkerDeployment
    /\ Len(gor) = 2
    /\ gor[1].err = Unavailable
    /\ gor[2].err = DeadlineExceeded
    /\ act.ret.err = DeadlineExceeded
    /\ act.ret.resp = "nil"
    /\ ReceivedFrom = {1, 2}

\* C30: a fan-out activity receives exactly one result from each goroutine
\* it started, also after an error was received: it returns only when every
\* goroutine has made its call, sent its result and finished, so that no
\* goroutine stays blocked on the channel; until it returns some step of the
\* activity or of a goroutine is possible; with no task queue it starts no
\* goroutine and returns no error.
C30_OneResultPerGoroutine ==
    /\ act.received = Cardinality(ReceivedFrom)
    /\ act.received <= Len(act.entries)
    /\ FanOutReturned =>
          /\ Len(gor) = Len(act.entries)
          /\ act.received = Len(gor)
          /\ \A i \in 1..Len(gor) : gor[i].pc = "done" /\ gor[i].req # NoRequest
          /\ mu = {}
          /\ act.entries = <<>> => (gor = <<>> /\ act.ret.err = Nil)
    /\ (act.kind # "none" /\ act.pc # "done") => ENABLED NextFan

\* every result was received although the first one received was an error
C30_Witness ==
    /\ FanOutReturned
    /\ act.kind = CheckUnversionedRampUserDataPropagation
    /\ Len(gor) = MaxTaskQueues
    /\ gor[1].err # Nil
    /\ act.ret.err = gor[1].err
    /\ \E i \in 2..Len(gor) : gor[i].err = Nil
    /\ act.received = MaxTaskQueues

\* C27: with the guard enabled and a close task id T # 0, a call that finds
\* no transfer queue state treats the close task as pending: it returns
\* ErrDependencyTaskNotCompleted and does not invoke DeleteWorkflowExecution.
C27_NoQueueStateMeansPending ==
    \A c \in Callers :
       (call[c].ensure /\ ms.CloseTransferTaskId # 0
          /\ call[c].transferQueueState.read /\ ~call[c].transferQueueState.found)
       => /\ call[c].ret = ErrDependencyTaskNotCompleted
          /\ call[c].pc \in {"release", "done"}
          /\ ~Has(call[c].trace, "delete")
          /\ ~Has(call[c].trace, "checkVersion")

C27_Witness ==
    \E c \in Callers :
       /\ Returned(c)
       /\ call[c].ensure
       /\ ms.CloseTransferTaskId # 0
       /\ call[c].transferQueueState.read
       /\ ~call[c].transferQueueState.found
       /\ closeTaskDone
       /\ call[c].ret = ErrDependencyTaskNotCompleted

\* C28: a call whose lock acquisition fails returns that error and calls
\* nothing else: no release, no load of the mutable state, no
\* DeleteWorkflowExecution; a release is only called by a call that acquired
\* the lock, and the failed call leaves the lock to its holder.
C28_NoReleaseWithoutLock ==
    \A c \in Callers :
       /\ call[c].ret = ErrLockAcquire =>
             /\ call[c].pc = "done"
             /\ call[c].trace = <<>>
             /\ call[c].releaseArg = "none"
             /\ c \notin lockHolders
       /\ Has(call[c].trace, "release") =>
             (call[c].trace[1] = "lock" /\ call[c].ret # ErrLockAcquire)
       /\ Has(call[c].trace, "lock") <=> (call[c].pc \notin {"idle"} /\ call[c].ret # ErrLockAcquire)

C28_Witness ==
    \E c \in Callers :
       /\ Returned(c)
       /\ call[c].ret = ErrLockAcquire
       /\ call[c].lockRequest.priority = "PriorityLow"
       /\ exists

\* C29: when the add call succeeded and the directive requires the
\* assignment rules, the invocation returns exactly what the mutable-state
\* update returned: a failed update is the error of the dispatch although the
\* task has been added to the worker queue, where it stays.
C29_UpdateResultIsDispatchResult ==
    (Pushed /\ push.resp.err = Nil /\ push.directive = "useAssignmentRules") =>
        /\ Len(push.updates) = 1
        /\ push.ret = push.updates[1].err
        /\ Len(push.adds) = 1
        /\ dispatched # <<>>
        /\ dispatched[Len(dispatched)].op = AddOp
        /\ dispatched[Len(dispatched)].TaskID = push.task.TaskID
        /\ dispatched[Len(dispatched)].ScheduledEventId = push.task.ScheduledEventID

\* a task dispatched a second time: it is in the worker queue twice, and the
\* dispatch returns the error of the update that followed the second add
C29_Witness ==
    /\ Len(dispatched) = 2
    /\ dispatched[1] = dispatched[2]
    /\ push.kind = "activity"
    /\ push.resp.err = Nil
    /\ push.directive = "useAssignmentRules"
    /\ push.ret = ErrUpdateFailed
    /\ assigned.activity = ""

\* the persistence objects of the factory's interface
VendedKinds ==
    {"TaskManager", "FairTaskManager", "ShardManager", "MetadataManager",
     "ClusterMetadataManager", "ExecutionManager", "NamespaceReplicationQueue",
     "HistoryTaskQueueManager", "NexusEndpointManager"}

\* C22 as stated: every object the factory vends, of every kind and under
\* every configuration of the factory, enforces the rate limits and emits
\* metrics: it has a rate-limited client and a metrics client among its layers.
C22_Original ==
    (vended.kind \in VendedKinds /\ vended.err = Nil) =>
        /\ Has(vended.layers, "RateLimitedClient")
        /\ Has(vended.layers, "MetricsClient")

(***************************************************************************)
(* Frontend Service.                                                       *)
(***************************************************************************)
\* the position of the first call c the Service made, 0 when it made none
PosOf(c) ==
    IF Has(svc.calls, c)
    THEN CHOOSE i \in 1..Len(svc.calls) :
            svc.calls[i] = c /\ \A j \in 1..(i - 1) : svc.calls[j] # c
    ELSE 0

\* b has not been called, or a was called before it
Precedes(a, b) == PosOf(b) # 0 => (PosOf(a) # 0 /\ PosOf(a) < PosOf(b))

Reverse(s) == [i \in 1..Len(s) |-> s[Len(s) + 1 - i]]

IsPrefix(p, s) == Len(p) <= Len(s) /\ \A i \in 1..Len(p) : p[i] = s[i]

\* the components of a sequence of calls
Targets(cs) == [i \in 1..Len(cs) |-> cs[i].on]

HandlerNames == {"handler", "operatorHandler", "adminHandler", "versionChecker"}

\* the components Start started, and the ones Stop has stopped, in order
StartedOrder == Targets(SelectSeq(svc.calls, LAMBDA c : c.method = "Start"))
StoppedOrder ==
    Targets(SelectSeq(svc.calls, LAMBDA c : c.method = "Stop" /\ c.on \in HandlerNames))

\* the calls that drain a server
DrainCalls ==
    {Call("server", "GracefulStop"), Call("httpAPIServer", "GracefulStop"),
     Call("server", "Stop")}

\* Claim C23: Service.Stop runs the shutdown steps in order: (1) the health
\* status is set to shutting down and the membership monitor to draining,
\* (2) it sleeps the failure-detection time, which is never negative, (3) the
\* handler, operator handler, admin handler and version checker are stopped,
\* in the reverse of the order Start started them, and the visibility manager
\* is closed, (4) the gRPC and HTTP servers are drained, (5) the metrics
\* handler is stopped.  No handler is stopped before the health check fails
\* and the sleep is over, no server is drained before the handlers are
\* stopped, and a Stop that has returned has run every step.
C23_StopStepsInOrder ==
    svc.pc # "none" =>
      \* (1) comes first
      /\ \A c \in {Call("healthServer", "Shutdown"), Call("membershipMonitor", "SetDraining")} :
            Precedes(c, Call("time", "Sleep"))
      /\ PosOf(Call("healthServer", "Shutdown")) # 0 => srv.health = "NOT_SERVING"
      /\ PosOf(Call("membershipMonitor", "SetDraining")) # 0 => srv.draining
      \* (2) the sleep lasts the configured time, or no time when that is negative
      /\ svc.pc \notin {"new", "started"} =>
            /\ svc.failureDetectionTime >= 0
            /\ svc.failureDetectionTime =
                 IF svc.config.ShutdownFailHealthCheckDuration < 0
                 THEN 0 ELSE svc.config.ShutdownFailHealthCheckDuration
      /\ \A h \in HandlerNames :
            /\ Precedes(Call("time", "Sleep"), Call(h, "Stop"))
            /\ Precedes(Call("healthServer", "Shutdown"), Call(h, "Stop"))
            /\ Precedes(Call("membershipMonitor", "SetDraining"), Call(h, "Stop"))
            /\ PosOf(Call(h, "Stop")) # 0 =>
                  /\ svc.slept = svc.failureDetectionTime
                  /\ srv.health = "NOT_SERVING"
                  /\ srv.draining
      \* (3) the handlers are stopped in the reverse of the start order
      /\ IsPrefix(StoppedOrder, Reverse(StartedOrder))
      /\ \A h \in HandlerNames : Precedes(Call(h, "Stop"), Call("visibilityManager", "Close"))
      \* (4) the servers are drained after that
      /\ \A d \in DrainCalls : Precedes(Call("visibilityManager", "Close"), d)
      /\ srv.drain # "none" \/ srv.httpDrain # "none" =>
            PosOf(Call("visibilityManager", "Close")) # 0
      \* (5) the metrics handler is stopped after the drains have returned
      /\ PosOf(Call("metricsHandler", "Stop")) # 0 =>
            /\ Precedes(Call("server", "GracefulStop"), Call("metricsHandler", "Stop"))
            /\ srv.drain = "done"
            /\ svc.httpAPIServer # NilPtr =>
                  /\ Precedes(Call("httpAPIServer", "GracefulStop"),
                              Call("metricsHandler", "Stop"))
                  /\ srv.httpDrain = "done"
      \* a Stop that has returned has run every step, each once
      /\ svc.pc = "stopped" =>
            /\ \A c \in {Call("healthServer", "Shutdown"),
                         Call("membershipMonitor", "SetDraining"), Call("time", "Sleep"),
                         Call("visibilityManager", "Close"),
                         Call("server", "GracefulStop")} : Count(svc.calls, c) = 1
            /\ \A h \in HandlerNames : Count(svc.calls, Call(h, "Stop")) = 1
            /\ Count(svc.calls, Call("httpAPIServer", "GracefulStop")) =
                 IF svc.httpAPIServer # NilPtr THEN 1 ELSE 0
            /\ Count(svc.calls, Call("metricsHandler", "Stop")) =
                 IF svc.metricsHandler # NilPtr THEN 1 ELSE 0

\* Stop has returned from a Service with an HTTP API server and a metrics
\* handler, after a sleep of positive length and a drain that was forced
C23_Witness ==
    /\ svc.pc = "stopped"
    /\ svc.httpAPIServer # NilPtr
    /\ svc.metricsHandler # NilPtr
    /\ svc.slept > 0
    /\ PosOf(Call("server", "Stop")) # 0
    /\ PosOf(Call("metricsHandler", "Stop")) > PosOf(Call("server", "Stop"))

\* Claim C24: Service.Stop returns only after the gRPC server's GracefulStop
\* has returned and, when there is an HTTP API server, after its GracefulStop
\* has returned; the drain time is at least one second and the timer is armed
\* with it; server.Stop() is called only when that time has expired, and is
\* called whenever it expires before the timer is stopped; and a Stop that has
\* been called eventually returns, whether or not the requests in flight end.
C24_StopWaitsForDrains ==
    /\ [](svc.pc = "stopped" =>
             /\ PosOf(Call("server", "GracefulStop")) # 0
             /\ srv.drain = "done"
             /\ svc.httpAPIServer # NilPtr =>
                   /\ PosOf(Call("httpAPIServer", "GracefulStop")) # 0
                   /\ srv.httpDrain = "done")
    /\ [](srv.grpc # "none" /\ srv.timer # "none" =>
             /\ svc.requestDrainTime >= Second
             /\ svc.requestDrainTime =
                  IF svc.config.ShutdownDrainDuration < Second
                  THEN Second ELSE svc.config.ShutdownDrainDuration
             /\ srv.remaining <= svc.requestDrainTime)
    /\ [](srv.grpc # "none" /\ PosOf(Call("server", "Stop")) # 0 =>
             srv.timer = "fired" /\ srv.remaining = 0)
    /\ [][srv.grpc # "none" /\ srv.timer = "none" /\ srv'.timer # "none" =>
             srv'.timer = "armed" /\ srv'.remaining = svc.requestDrainTime]_vars
    /\ (srv.grpc # "none" /\ srv.timer = "fired") ~> (PosOf(Call("server", "Stop")) # 0)
    /\ (svc.pc = "stopping") ~> (svc.pc = "stopped")

\* Stop has returned from a Service with an HTTP API server whose configured
\* drain duration was below one second, after the timer fired with a request
\* still in flight and server.Stop() made GracefulStop return
C24_Witness ==
    /\ svc.pc = "stopped"
    /\ svc.httpAPIServer # NilPtr
    /\ svc.config.ShutdownDrainDuration < Second
    /\ srv.timer = "fired"
    /\ PosOf(Call("server", "Stop")) # 0
    /\ PosOf(Call("server", "Stop")) < PosOf(Call("metricsHandler", "Stop"))

(***************************************************************************)
(* Default JWT claim mapper.                                               *)
(***************************************************************************)
\* GetClaims has returned claims and no error
Mapped == auth.pc = "done" /\ auth.err = Nil

\* some permission of the token grants the role on the namespace
Granted(namespace, role) ==
    \E i \in 1..Len(auth.grants) :
        /\ auth.grants[i].namespace = namespace
        /\ permissionToRole(auth.grants[i].word) = role

HasBit(mask, bit) == (mask \div bit) % 2 = 1

C26_AudienceCheckedWhenExpected ==
    auth.pc = "done" =>
      LET expected == auth.authInfo.Audience
          aud == auth.authInfo.AuthToken.aud
      IN /\ expected = "" => auth.err = Nil
         /\ expected # "" /\ Has(aud, expected) => auth.err = Nil
         /\ expected # "" /\ ~Has(aud, expected) =>
               /\ auth.err # Nil
               /\ auth.claims = NoClaims

\* GetClaims has failed for the suite's token, whose audience is
\* "test-audience", when the audience "foo" was expected
C26_Witness ==
    /\ auth.pc = "done"
    /\ auth.authInfo.Audience = "foo"
    /\ auth.authInfo.AuthToken.aud = <<TestAudience>>
    /\ auth.err = ErrPermissionDenied

(***************************************************************************)
(* Version-sync fan-out activities: the map of max versions and the        *)
(* requests.                                                               *)
(***************************************************************************)
\* a sync activity has returned a response and no error
SyncSucceeded ==
    /\ FanOutReturned
    /\ KeepsMaxVersions(act.kind)
    /\ act.ret.err = Nil

\* the goroutines started for the entries of a task-queue name
GoroutinesOf(name) == {i \in 1..Len(gor) : gor[i].entry.Name = name}

\* Claim C31: on success of a sync fan-out activity, the keys of
\* TaskQueueMaxVersions are exactly the task-queue names of the entries, and
\* each name is mapped to the maximum of 0 and the versions returned for the
\* entries of that name, whatever the order in which the calls completed; the
\* map is written only by the goroutine that holds the mutex, and at most one
\* goroutine holds it.
C31_MaxVersionPerName ==
    /\ [](SyncSucceeded =>
            LET m == act.ret.resp.TaskQueueMaxVersions IN
              /\ {p[1] : p \in m} = {act.entries[i].Name : i \in 1..Len(act.entries)}
              /\ \A p, q \in m : p[1] = q[1] => p = q
              /\ \A p \in m :
                    /\ p[2] >= 0
                    /\ \A i \in GoroutinesOf(p[1]) : p[2] >= gor[i].version
                    /\ p[2] = 0 \/ \E i \in GoroutinesOf(p[1]) : p[2] = gor[i].version)
    /\ [](act.kind # "none" =>
            /\ Cardinality(mu) <= 1
            /\ \A i \in 1..Len(gor) : gor[i].pc = "store" <=> i \in mu)
    /\ [][act.kind # "none" /\ maxVersionByName' # maxVersionByName =>
            \E i \in mu : mu = {i} /\ mu' = {} /\ gor[i].pc = "store"]_vars

\* a sync activity has succeeded for two entries of the task queue tq1: one
\* call returned version 2 and the other version -1, and tq1 is mapped to 2
C31_Witness ==
    /\ SyncSucceeded
    /\ Len(gor) = 2
    /\ gor[1].entry.Name = "tq1" /\ gor[2].entry.Name = "tq1"
    /\ gor[1].version = 2 /\ gor[2].version = -1
    /\ act.ret.resp.TaskQueueMaxVersions = {<<"tq1", 2>>}

\* the goroutines that have sent their request to the matching service
Sent == {i \in 1..Len(gor) : gor[i].req # NoRequest}

\* Claim C32: SyncDeploymentVersionUserDataFromWorkerDeployment sends exactly
\* one SyncDeploymentUserData request per entry of input.Sync, for the entry's
\* task-queue name and types: with input.ForgetVersion every request carries
\* the ForgetVersion operation with input.Version and no version data,
\* otherwise UpdateVersionData with the entry's data.  SyncUnversionedRamp
\* sends one UpdateVersionData request per task queue of the current version,
\* with the ramp of its input and no version, and none when DescribeVersion
\* fails.  A request, once sent, is not sent again.
C32_OneRequestPerEntry ==
    /\ [](act.kind # "none" =>
            \* one goroutine per entry, in the order of the entries
            /\ Len(gor) = act.spawned
            /\ Len(gor) <= Len(act.entries)
            /\ \A i \in 1..Len(gor) :
                  /\ gor[i].entry = act.entries[i]
                  /\ gor[i].pc # "start" <=> i \in Sent
            /\ act.pc = "done" /\ act.fanOut => Sent = 1..Len(act.entries)
            /\ act.pc = "done" /\ ~act.fanOut => gor = <<>>
            /\ act.kind = SyncDeploymentVersionUserDataFromWorkerDeployment =>
                  /\ act.entries = act.input.Sync
                  /\ \A i \in Sent :
                        /\ gor[i].req.op = "SyncDeploymentUserData"
                        /\ gor[i].req.TaskQueue = act.input.Sync[i].Name
                        /\ gor[i].req.TaskQueueTypes = act.input.Sync[i].Types
                        /\ act.input.ForgetVersion =>
                              /\ gor[i].req.Operation = "ForgetVersion"
                              /\ gor[i].req.Value = act.input.Version
                        /\ ~act.input.ForgetVersion =>
                              /\ gor[i].req.Operation = "UpdateVersionData"
                              /\ gor[i].req.Value = act.input.Sync[i].Data
            /\ act.kind = SyncUnversionedRamp =>
                  \A i \in Sent :
                     /\ gor[i].req.op = "SyncDeploymentUserData"
                     /\ gor[i].req.TaskQueue = act.entries[i].Name
                     /\ gor[i].req.TaskQueueTypes = act.entries[i].Types
                     /\ Len(gor[i].req.TaskQueueTypes) = 1
                     /\ gor[i].req.Operation = "UpdateVersionData"
                     /\ gor[i].req.Value =
                          [Version |-> "nil",
                           RoutingUpdateTime |-> act.input.UpdateArgs.RoutingUpdateTime,
                           RampingSinceTime |-> act.input.UpdateArgs.RampingSinceTime,
                           RampPercentage |-> act.input.UpdateArgs.RampPercentage])
    /\ [][act.kind # "none" =>
            /\ Len(gor') >= Len(gor)
            /\ \A i \in Sent : gor'[i].req = gor[i].req]_vars

\* the sync activity has returned after forgetting version v1 on two task
\* queues: a workflow-type request for tq2 and an activity-type one for tq1
C32_Witness ==
    /\ act.kind = SyncDeploymentVersionUserDataFromWorkerDeployment
    /\ act.pc = "done"
    /\ act.input.ForgetVersion
    /\ Len(gor) = 2
    /\ gor[1].req.TaskQueue = "tq2" /\ gor[1].req.TaskQueueTypes = <<"WORKFLOW">>
    /\ gor[2].req.TaskQueue = "tq1" /\ gor[2].req.TaskQueueTypes = <<"ACTIVITY">>
    /\ gor[1].req.Operation = "ForgetVersion" /\ gor[2].req.Value = "v1"

(***************************************************************************)
(* ESClient.                                                               *)
(***************************************************************************)
\* the answer the cluster's reply to a query amounts to: true for the
\* default flavor at version 7.10.0 or later, false for every other reply
AnswerOf(res) ==
    /\ res.kind = "info"
    /\ res.BuildFlavor = "default"
    /\ res.Number \in {<<7, 10, 0>>, <<8>>}

\* Claim C33: IsPointInTimeSupported queries the cluster at most once per
\* client, also under concurrent callers: every call returns the answer of
\* the first query, which is false when that query failed or could not be
\* decoded, no call returns before that query has returned, and a query that
\* has been made is never followed by another.
C33_QueriedAtMostOnce ==
    /\ [](es.once # "none" =>
            /\ Len(es.queries) <= 1
            /\ Cardinality({c \in Callers : es.callers[c].pc = "query"}) <= 1
            /\ \A c \in Callers :
                  /\ es.callers[c].pc = "query" => es.queries = <<>>
                  /\ es.callers[c].pc = "read" \/ es.callers[c].returned =>
                        /\ Len(es.queries) = 1
                        /\ es.isPointInTimeSupported = AnswerOf(es.queries[1])
                  /\ es.callers[c].returned =>
                        /\ es.callers[c].ret = AnswerOf(es.queries[1])
                        /\ es.queries[1].kind # "info" => es.callers[c].ret = FALSE)
    /\ [][es.once # "none" /\ es.queries # <<>> =>
            /\ es'.queries = es.queries
            /\ es'.isPointInTimeSupported = es.isPointInTimeSupported]_vars

\* every caller has made all its calls and has returned true from the last,
\* after a single query of the cluster
C33_Witness ==
    /\ es.once = "done"
    /\ Len(es.queries) = 1
    /\ \A c \in Callers :
          /\ es.callers[c].calls = MaxPitCalls
          /\ es.callers[c].pc = "idle"
          /\ es.callers[c].returned
          /\ es.callers[c].ret = TRUE
====
